---------------------------- MODULE Spec2Model ----------------------------
(***************************************************************************)
(* State-machine model of the virtual peripherals of                       *)
(* 07_Virtual_Simulation: the virtual interrupt controller (sim_nvic.c)    *)
(* and the virtual GPIO driver (sim_gpio.c).                               *)
(*                                                                         *)
(* The program is single threaded.  A registered interrupt handler runs on *)
(* the caller's stack, inside VirtualNVIC_ProcessInterrupts, and may itself*)
(* call the API.  The variable stack holds the calls that are in progress: *)
(* an "isr" frame for a handler that is running (ProcessInterrupts is at   *)
(* line 271) and an "all" frame for a VirtualNVIC_ProcessAllPending whose  *)
(* loop is running.  The caller of an API function is the program's main   *)
(* line when the stack is empty and the running handler otherwise.         *)
(***************************************************************************)
EXTENDS Integers, Sequences, FiniteSets, TLC

VARIABLES
    \* sim_nvic.c
    irq_lines,                    \* irq_lines[i]: enabled, pending, active, priority, handler
    nvic_initialized,
    global_irq_enabled,
    nvic_error_injection_enabled, \* sim_nvic.c's static error_injection_enabled
    nvic_last_error,              \* sim_nvic.c's static last_error
    stack,                        \* calls in progress, innermost last
    nvic_ret,                     \* what the most recent NVIC call handed back
    nvic_fault,                   \* the most recent NVIC call was rejected by inject_error
    gate_closed                   \* DisableGlobalIRQ was called and EnableGlobalIRQ not since

nvicVars == <<irq_lines, nvic_initialized, global_irq_enabled,
              nvic_error_injection_enabled, nvic_last_error, stack,
              nvic_ret, nvic_fault, gate_closed>>

VARIABLES
    \* sim_gpio.c
    gpio_ports,                   \* gpio_ports[port]: clock_enabled, pins[pin]
    gpio_initialized,
    gpio_error_injection_enabled, \* sim_gpio.c's static error_injection_enabled
    gpio_last_error,              \* sim_gpio.c's static last_error
    gpio_ret,                     \* what the most recent GPIO call returned
    gpio_fault,                   \* the most recent GPIO call was rejected by inject_error
    gpio_read,                    \* what the most recent call stored in *value, -1 for nothing
    gpio_edge,                    \* the edge the most recent call simulated, -1 for none
    gpio_invoked,                 \* the handler invocations the most recent call made
    clocked,                      \* the ports for which EnableClock has returned 1
    driven,                       \* driven[<<port, pin>>]: the level last written to
                                  \* the pin as an output, toggles applied; -1 for none
    hal_status                    \* what the most recent HAL_GPIO_Init returned, -1 for none

gpioVars == <<gpio_ports, gpio_initialized, gpio_error_injection_enabled,
              gpio_last_error, gpio_ret, gpio_fault, gpio_read, gpio_edge,
              gpio_invoked, clocked, driven, hal_status>>

vars == <<nvicVars, gpioVars>>

----------------------------------------------------------------------------
(* Bounds of the model *)

\* The table has 240 lines in the source; the model keeps the first few.
MAX_IRQ_LINES == 3

\* API calls one invocation of a handler may make before it returns.
MaxHandlerCalls == 1

\* The table has 9 ports of 16 pins in the source; the model keeps the first few.
MAX_GPIO_PORTS == 2
MAX_GPIO_PINS == 2

(* Program constants *)
MAX_PRIORITY == 15
SAFETY_LIMIT == 100

\* sim_hal_wrapper.c: status codes, and the modes of GPIO_InitTypeDef, whose
\* names sim_gpio.c also uses for its own modes.
HAL_OK == 0
HAL_ERROR == 1

HAL_GPIO_MODE_INPUT == 0
HAL_GPIO_MODE_OUTPUT_PP == 1
HAL_GPIO_MODE_OUTPUT_OD == 17
HAL_GPIO_MODE_AF_PP == 2
HAL_GPIO_MODE_AF_OD == 18
HAL_GPIO_MODE_ANALOG == 3
HAL_GPIO_MODE_IT_RISING == 269549568
HAL_GPIO_MODE_IT_FALLING == 270598144
HAL_GPIO_MODE_IT_RISING_FALLING == 271646720

GPIO_NOPULL == 0
GPIO_PULLUP == 1
GPIO_SPEED_FREQ_LOW == 0
GPIO_SPEED_FREQ_VERY_HIGH == 3

NVIC_ERROR_NONE == 0
NVIC_ERROR_INVALID_IRQ == 1
NVIC_ERROR_PRIORITY == 2

GPIO_MODE_INPUT == 0
GPIO_MODE_OUTPUT == 1
GPIO_MODE_ALTERNATE == 2
GPIO_MODE_ANALOG == 3
GPIO_MODE_IT_RISING == 4
GPIO_MODE_IT_FALLING == 5
GPIO_MODE_IT_BOTH == 6

GPIO_OTYPE_PP == 0
GPIO_OTYPE_OD == 1

GPIO_SPEED_LOW == 0
GPIO_SPEED_FAST == 2
GPIO_SPEED_HIGH == 3

GPIO_PUPD_NONE == 0
GPIO_PUPD_UP == 1
GPIO_PUPD_DOWN == 2

GPIO_ERROR_NONE == 0
GPIO_ERROR_INVALID_PORT == 1
GPIO_ERROR_INVALID_PIN == 2
GPIO_ERROR_CONFIG == 3
GPIO_ERROR_INTERRUPT == 4
GPIO_ERROR_PINMUX == 5

NULL == "NULL"

\* Handlers a program registers: one that only logs, like timer_irq_handler,
\* and one that calls back into the NVIC API while it runs.
QuietHandler == "quiet"
BusyHandler == "busy"
Handlers == {QuietHandler, BusyHandler}

IrqIds == 0 .. (MAX_IRQ_LINES - 1)

\* Arguments the callers pass: the first three lines and one beyond the table;
\* a high and the lowest urgency and one priority beyond MAX_PRIORITY.
IrqInputs == {0, 1, 2, MAX_IRQ_LINES}
PriorityInputs == {1, MAX_PRIORITY, MAX_PRIORITY + 1}

----------------------------------------------------------------------------
(* sim_nvic.c *)

\* Static storage before VirtualNVIC_Init has run: all zero.
ZeroIRQ == [enabled |-> FALSE, pending |-> FALSE, active |-> FALSE,
            priority |-> 0, handler |-> NULL]

\* What VirtualNVIC_Init writes to every line.
DefaultIRQ == [enabled |-> FALSE, pending |-> FALSE, active |-> FALSE,
               priority |-> MAX_PRIORITY, handler |-> NULL]

\* The table and the gate as `if (!nvic_initialized) VirtualNVIC_Init();`
\* leaves them at the top of an API function.
InitLines == IF nvic_initialized THEN irq_lines ELSE [i \in IrqIds |-> DefaultIRQ]
InitGate == IF nvic_initialized THEN global_irq_enabled ELSE TRUE

\* inject_error (lines 71-80): 0 when it returns 0; otherwise the error code
\* (rand() % 2) + 1 it stored in last_error before returning 1.
InjectOutcomes == IF nvic_error_injection_enabled THEN {0, 1, 2} ELSE {0}

\* find_highest_priority_pending (lines 234-249): the scan from line i on,
\* with the best line and priority found so far.
RECURSIVE ScanLines(_, _, _, _)
ScanLines(lines, i, highest_irq, highest_priority) ==
    IF i >= MAX_IRQ_LINES THEN highest_irq
    ELSE IF lines[i].enabled /\ lines[i].pending /\ ~lines[i].active
            /\ lines[i].priority < highest_priority
         THEN ScanLines(lines, i + 1, i, lines[i].priority)
         ELSE ScanLines(lines, i + 1, highest_irq, highest_priority)

\* The scan with `<=` for `<` at line 241: a tie goes to the last line.
RECURSIVE ScanLinesLE(_, _, _, _)
ScanLinesLE(lines, i, highest_irq, highest_priority) ==
    IF i >= MAX_IRQ_LINES THEN highest_irq
    ELSE IF lines[i].enabled /\ lines[i].pending /\ ~lines[i].active
            /\ lines[i].priority <= highest_priority
         THEN ScanLinesLE(lines, i + 1, i, lines[i].priority)
         ELSE ScanLinesLE(lines, i + 1, highest_irq, highest_priority)

find_last_highest_priority_pending(lines) ==
    ScanLinesLE(lines, 0, -1, MAX_PRIORITY + 1)

find_highest_priority_pending(lines) == ScanLines(lines, 0, -1, MAX_PRIORITY + 1)

(* The call stack *)

IsrFrame(irq, handler) ==
    [kind |-> "isr", irq |-> irq,
     left |-> IF handler = BusyHandler THEN MaxHandlerCalls ELSE 0,
     processed |-> 0, eligible |-> {}, quiet |-> TRUE, served |-> <<>>]

\* The lines of a table that can be dispatched.
Eligible(lines) ==
    {i \in IrqIds : lines[i].enabled /\ lines[i].pending /\ ~lines[i].active}

\* No line has a handler that calls the API.
AllQuiet(lines) == \A i \in IrqIds : lines[i].handler # BusyHandler

\* `int processed = 0;` (line 287).  The rest is history: the lines that
\* could be dispatched when the call was made; whether no line has had a
\* handler that calls the API, at the call and at every turn of the loop
\* since; and, for as long as that is so, the lines dispatched, in order.
AllFrame(lines) ==
    [kind |-> "all", irq |-> -1, left |-> 0,
     processed |-> 0, eligible |-> Eligible(lines),
     quiet |-> AllQuiet(lines), served |-> <<>>]

Top == stack[Len(stack)]
Pop(stk) == SubSeq(stk, 1, Len(stk) - 1)
InHandler == stack # <<>> /\ Top.kind = "isr"
InLoop == stack # <<>> /\ Top.kind = "all"

\* Who may call the API now: the main line, or the running handler.
CanCall == stack = <<>> \/ (InHandler /\ Top.left > 0)

\* The stack once the caller has made one more call.
Charge(stk) ==
    IF stk = <<>> THEN stk ELSE [stk EXCEPT ![Len(stk)].left = @ - 1]

\* An API function that returns with the table as lines.
Returns(lines, err, ret, fault) ==
    /\ nvic_initialized' = TRUE
    /\ global_irq_enabled' = InitGate
    /\ irq_lines' = lines
    /\ nvic_last_error' = err
    /\ nvic_ret' = ret
    /\ nvic_fault' = fault
    /\ stack' = Charge(stack)
    /\ UNCHANGED <<nvic_error_injection_enabled, gate_closed>>
    /\ UNCHANGED gpioVars

\* VirtualNVIC_Init without the test of line 43: it writes the defaults again.
VirtualNVIC_Reinit ==
    /\ CanCall
    /\ Returns([i \in IrqIds |-> DefaultIRQ], nvic_last_error, 0, FALSE)

\* VirtualNVIC_Init (lines 42-57), called explicitly.
VirtualNVIC_Init ==
    /\ CanCall
    /\ Returns(InitLines, nvic_last_error, 0, FALSE)

\* VirtualNVIC_SetErrorInjection (lines 60-63).
VirtualNVIC_SetErrorInjection(enable) ==
    /\ CanCall
    /\ nvic_error_injection_enabled' = enable
    /\ nvic_ret' = 0
    /\ nvic_fault' = FALSE
    /\ UNCHANGED gpioVars
    /\ stack' = Charge(stack)
    /\ UNCHANGED <<irq_lines, nvic_initialized, global_irq_enabled,
                   nvic_last_error, gate_closed>>

\* VirtualNVIC_EnableIRQ (lines 83-99).
VirtualNVIC_EnableIRQ(irq_num) ==
    /\ CanCall
    /\ IF irq_num >= MAX_IRQ_LINES
       THEN Returns(InitLines, NVIC_ERROR_INVALID_IRQ, 0, FALSE)
       ELSE \E inj \in InjectOutcomes :
              IF inj # 0
              THEN Returns(InitLines, inj, 0, TRUE)
              ELSE Returns([InitLines EXCEPT ![irq_num].enabled = TRUE],
                           NVIC_ERROR_NONE, 1, FALSE)

\* A DisableIRQ that also drops what is pending on the line.
DisableAndClear(irq_num) ==
    /\ CanCall
    /\ IF irq_num >= MAX_IRQ_LINES
       THEN Returns(InitLines, NVIC_ERROR_INVALID_IRQ, 0, FALSE)
       ELSE Returns([InitLines EXCEPT ![irq_num].enabled = FALSE,
                                      ![irq_num].pending = FALSE],
                    NVIC_ERROR_NONE, 1, FALSE)

\* VirtualNVIC_DisableIRQ (lines 102-115).
VirtualNVIC_DisableIRQ(irq_num) ==
    /\ CanCall
    /\ IF irq_num >= MAX_IRQ_LINES
       THEN Returns(InitLines, NVIC_ERROR_INVALID_IRQ, 0, FALSE)
       ELSE Returns([InitLines EXCEPT ![irq_num].enabled = FALSE],
                    NVIC_ERROR_NONE, 1, FALSE)

\* A SetPriority without the test of lines 126-131.
SetPriorityUnchecked(irq_num, priority) ==
    /\ CanCall
    /\ IF irq_num >= MAX_IRQ_LINES
       THEN Returns(InitLines, NVIC_ERROR_INVALID_IRQ, 0, FALSE)
       ELSE \E inj \in InjectOutcomes :
              IF inj # 0
              THEN Returns(InitLines, inj, 0, TRUE)
              ELSE Returns([InitLines EXCEPT ![irq_num].priority = priority],
                           NVIC_ERROR_NONE, 1, FALSE)

\* VirtualNVIC_SetPriority (lines 118-140).
VirtualNVIC_SetPriority(irq_num, priority) ==
    /\ CanCall
    /\ IF irq_num >= MAX_IRQ_LINES
       THEN Returns(InitLines, NVIC_ERROR_INVALID_IRQ, 0, FALSE)
       ELSE IF priority > MAX_PRIORITY
       THEN Returns(InitLines, NVIC_ERROR_PRIORITY, 0, FALSE)
       ELSE \E inj \in InjectOutcomes :
              IF inj # 0
              THEN Returns(InitLines, inj, 0, TRUE)
              ELSE Returns([InitLines EXCEPT ![irq_num].priority = priority],
                           NVIC_ERROR_NONE, 1, FALSE)

\* VirtualNVIC_SetHandler (lines 154-172); the name is only printed.
VirtualNVIC_SetHandler(irq_num, handler) ==
    /\ CanCall
    /\ IF irq_num >= MAX_IRQ_LINES
       THEN Returns(InitLines, NVIC_ERROR_INVALID_IRQ, 0, FALSE)
       ELSE Returns([InitLines EXCEPT ![irq_num].handler = handler],
                    NVIC_ERROR_NONE, 1, FALSE)

\* A SetPending that dispatches at once a line more urgent than the one
\* whose handler is running.
SetPendingPreempts(irq_num) ==
    /\ CanCall
    /\ IF irq_num >= MAX_IRQ_LINES
       THEN Returns(InitLines, NVIC_ERROR_INVALID_IRQ, 0, FALSE)
       ELSE LET lines == [InitLines EXCEPT ![irq_num].pending = TRUE]
                preempts == /\ InHandler
                            /\ irq_num \in Eligible(lines)
                            /\ lines[irq_num].handler # NULL
                            /\ lines[irq_num].priority < lines[Top.irq].priority
            IN IF preempts
               THEN /\ nvic_initialized' = TRUE
                    /\ global_irq_enabled' = InitGate
                    /\ irq_lines' = [lines EXCEPT ![irq_num].pending = FALSE,
                                                  ![irq_num].active = TRUE]
                    /\ stack' = Append(Charge(stack),
                                       IsrFrame(irq_num, lines[irq_num].handler))
                    /\ nvic_last_error' = NVIC_ERROR_NONE
                    /\ nvic_ret' = 1
                    /\ nvic_fault' = FALSE
                    /\ UNCHANGED <<nvic_error_injection_enabled, gate_closed>>
                    /\ UNCHANGED gpioVars
               ELSE Returns(lines, NVIC_ERROR_NONE, 1, FALSE)

\* VirtualNVIC_SetPending (lines 175-191).
VirtualNVIC_SetPending(irq_num) ==
    /\ CanCall
    /\ IF irq_num >= MAX_IRQ_LINES
       THEN Returns(InitLines, NVIC_ERROR_INVALID_IRQ, 0, FALSE)
       ELSE \E inj \in InjectOutcomes :
              IF inj # 0
              THEN Returns(InitLines, inj, 0, TRUE)
              ELSE Returns([InitLines EXCEPT ![irq_num].pending = TRUE],
                           NVIC_ERROR_NONE, 1, FALSE)

\* A ClearPending that reports success and leaves the flag as it is.
ClearPendingKept(irq_num) ==
    /\ CanCall
    /\ IF irq_num >= MAX_IRQ_LINES
       THEN Returns(InitLines, NVIC_ERROR_INVALID_IRQ, 0, FALSE)
       ELSE Returns(InitLines, NVIC_ERROR_NONE, 1, FALSE)

\* VirtualNVIC_ClearPending (lines 194-208).
VirtualNVIC_ClearPending(irq_num) ==
    /\ CanCall
    /\ IF irq_num >= MAX_IRQ_LINES
       THEN Returns(InitLines, NVIC_ERROR_INVALID_IRQ, 0, FALSE)
       ELSE Returns([InitLines EXCEPT ![irq_num].pending = FALSE],
                    NVIC_ERROR_NONE, 1, FALSE)

\* VirtualNVIC_IsPending (lines 211-219): returns the flag.
VirtualNVIC_IsPending(irq_num) ==
    /\ CanCall
    /\ Returns(InitLines, nvic_last_error,
               IF irq_num >= MAX_IRQ_LINES THEN 0
               ELSE IF InitLines[irq_num].pending THEN 1 ELSE 0,
               FALSE)

\* VirtualNVIC_EnableGlobalIRQ (lines 222-225).
VirtualNVIC_EnableGlobalIRQ ==
    /\ CanCall
    /\ global_irq_enabled' = TRUE
    /\ gate_closed' = FALSE
    /\ nvic_ret' = 0
    /\ nvic_fault' = FALSE
    /\ UNCHANGED gpioVars
    /\ stack' = Charge(stack)
    /\ UNCHANGED <<irq_lines, nvic_initialized, nvic_error_injection_enabled,
                   nvic_last_error>>

\* VirtualNVIC_DisableGlobalIRQ (lines 228-231).
VirtualNVIC_DisableGlobalIRQ ==
    /\ CanCall
    /\ global_irq_enabled' = FALSE
    /\ gate_closed' = TRUE
    /\ nvic_ret' = 0
    /\ nvic_fault' = FALSE
    /\ UNCHANGED gpioVars
    /\ stack' = Charge(stack)
    /\ UNCHANGED <<irq_lines, nvic_initialized, nvic_error_injection_enabled,
                   nvic_last_error>>

(* Dispatch *)

\* A dispatch that forgets `irq->pending = 0`.
DispatchKeepPending(lines, irq) ==
    IF lines[irq].handler = NULL
    THEN [lines EXCEPT ![irq].active = FALSE]
    ELSE [lines EXCEPT ![irq].active = TRUE]

\* VirtualNVIC_ProcessInterrupts, lines 259-274, for the selected line irq:
\* pending is cleared and active set, and the handler, if any, is entered.
\* With no handler the function runs on to line 276 and clears active.
Dispatch(lines, irq) ==
    IF lines[irq].handler = NULL
    THEN [lines EXCEPT ![irq].pending = FALSE, ![irq].active = FALSE]
    ELSE [lines EXCEPT ![irq].pending = FALSE, ![irq].active = TRUE]

\* The line VirtualNVIC_ProcessInterrupts dispatches (lines 255-261), -1 for none.
SelectedIRQ(lines, gate) ==
    IF ~gate THEN -1 ELSE find_highest_priority_pending(lines)

\* The count left as it is: `processed++` forgotten.
SameProcessed(processed) == processed

\* `processed++` (line 290) and `if (processed > 100)` (line 291).
NextProcessed(processed) == processed + 1
LimitReached(processed) == processed > SAFETY_LIMIT

\* VirtualNVIC_ProcessInterrupts (lines 252-279), up to the handler's entry.
VirtualNVIC_ProcessInterrupts ==
    /\ CanCall
    /\ nvic_initialized' = TRUE
    /\ global_irq_enabled' = InitGate
    /\ LET irq == SelectedIRQ(InitLines, InitGate)
       IN IF irq < 0
          THEN /\ irq_lines' = InitLines
               /\ stack' = Charge(stack)
          ELSE /\ irq_lines' = Dispatch(InitLines, irq)
               /\ stack' = IF InitLines[irq].handler = NULL
                           THEN Charge(stack)
                           ELSE Append(Charge(stack),
                                       IsrFrame(irq, InitLines[irq].handler))
    /\ nvic_ret' = 0
    /\ nvic_fault' = FALSE
    /\ UNCHANGED gpioVars
    /\ UNCHANGED <<nvic_error_injection_enabled, nvic_last_error, gate_closed>>

\* The end of one turn of the loop of VirtualNVIC_ProcessAllPending (lines
\* 290-301), in the frame fr, after ProcessInterrupts has returned: the stack
\* below fr is rest.  The count the function prints is handed back.
EndOfTurn(rest, fr) ==
    LET n == NextProcessed(fr.processed)
    IN IF LimitReached(n)
       THEN /\ stack' = rest
            /\ nvic_ret' = n
       ELSE /\ stack' = Append(rest, [fr EXCEPT !.processed = n])
            /\ nvic_ret' = 0

\* A completion that clears pending as well as active.
CompletedAndCleared(lines, irq) ==
    [lines EXCEPT ![irq].active = FALSE, ![irq].pending = FALSE]

\* `irq->active = 0;` (line 276), after the handler of line irq has returned.
Completed(lines, irq) == [lines EXCEPT ![irq].active = FALSE]

\* The running handler returns: ProcessInterrupts clears active (line 276)
\* and returns to its caller, which may be the loop of ProcessAllPending.
HandlerReturn ==
    /\ InHandler
    /\ irq_lines' = Completed(irq_lines, Top.irq)
    /\ LET rest == Pop(stack)
       IN IF rest # <<>> /\ rest[Len(rest)].kind = "all"
          THEN EndOfTurn(Pop(rest), rest[Len(rest)])
          ELSE /\ stack' = rest
               /\ nvic_ret' = 0
    /\ nvic_fault' = FALSE
    /\ UNCHANGED gpioVars
    /\ UNCHANGED <<nvic_initialized, global_irq_enabled,
                   nvic_error_injection_enabled, nvic_last_error, gate_closed>>

\* VirtualNVIC_ProcessAllPending (lines 282-287): the call, up to the loop.
VirtualNVIC_ProcessAllPending ==
    /\ CanCall
    /\ nvic_initialized' = TRUE
    /\ global_irq_enabled' = InitGate
    /\ irq_lines' = InitLines
    /\ stack' = Append(Charge(stack), AllFrame(InitLines))
    /\ nvic_ret' = 0
    /\ nvic_fault' = FALSE
    /\ UNCHANGED gpioVars
    /\ UNCHANGED <<nvic_error_injection_enabled, nvic_last_error, gate_closed>>

\* One turn of the loop (lines 288-295): the test, and the call of
\* ProcessInterrupts up to the handler's entry or, with no handler to enter,
\* to the end of the turn.
LoopTurn ==
    /\ InLoop
    /\ IF find_highest_priority_pending(irq_lines) < 0
       THEN /\ stack' = Pop(stack)
            /\ nvic_ret' = Top.processed
            /\ irq_lines' = irq_lines
       ELSE LET irq == SelectedIRQ(irq_lines, global_irq_enabled)
                fr == IF Top.quiet /\ AllQuiet(irq_lines)
                      THEN [Top EXCEPT !.served =
                                          IF irq < 0 THEN @ ELSE Append(@, irq)]
                      ELSE [Top EXCEPT !.quiet = FALSE, !.served = <<>>]
            IN IF irq < 0
               THEN /\ irq_lines' = irq_lines
                    /\ EndOfTurn(Pop(stack), fr)
               ELSE /\ irq_lines' = Dispatch(irq_lines, irq)
                    /\ IF irq_lines[irq].handler = NULL
                       THEN EndOfTurn(Pop(stack), fr)
                       ELSE /\ stack' = Append(Append(Pop(stack), fr),
                                               IsrFrame(irq, irq_lines[irq].handler))
                            /\ nvic_ret' = 0
    /\ nvic_fault' = FALSE
    /\ UNCHANGED gpioVars
    /\ UNCHANGED <<nvic_initialized, global_irq_enabled,
                   nvic_error_injection_enabled, nvic_last_error, gate_closed>>

----------------------------------------------------------------------------
(* sim_gpio.c *)

PortIds == 0 .. (MAX_GPIO_PORTS - 1)
PinIds == 0 .. (MAX_GPIO_PINS - 1)

\* The one handler the program registers: example_irq_handler, which logs.
example_irq_handler == "example_irq_handler"

\* What VirtualGPIO_Init writes to every pin and port (lines 79-94); static
\* storage holds the same zeros before it has run.
DefaultPin == [mode |-> GPIO_MODE_INPUT, output_type |-> GPIO_OTYPE_PP,
               speed |-> GPIO_SPEED_LOW, pupd |-> GPIO_PUPD_NONE,
               alt_function |-> 0, value |-> 0,
               irq_enabled |-> 0, irq_handler |-> NULL]

DefaultPort == [clock_enabled |-> 0, pins |-> [n \in PinIds |-> DefaultPin]]

\* The table as `if (!gpio_initialized) VirtualGPIO_Init();` leaves it.
InitPorts == IF gpio_initialized THEN gpio_ports ELSE [p \in PortIds |-> DefaultPort]

\* sim_gpio.c's inject_error (lines 113-123): 0 when it returns 0; otherwise
\* the error code (rand() % 5) + 1 it stored in last_error before returning 1.
GpioInjectOutcomes ==
    IF gpio_error_injection_enabled THEN 0 .. 5 ELSE {0}

\* A GPIO function that returns with the table as ports.
GpioReturns(ports, err, ret, fault, read) ==
    /\ gpio_initialized' = TRUE
    /\ gpio_ports' = ports
    /\ gpio_last_error' = err
    /\ gpio_ret' = ret
    /\ gpio_fault' = fault
    /\ gpio_read' = read
    /\ gpio_edge' = -1
    /\ gpio_invoked' = <<>>
    /\ UNCHANGED <<gpio_error_injection_enabled, hal_status>>
    /\ UNCHANGED nvicVars

GpioFails(err) == GpioReturns(InitPorts, err, 0, FALSE, -1) /\ UNCHANGED clocked
GpioFaults(inj) == GpioReturns(InitPorts, inj, 0, TRUE, -1) /\ UNCHANGED clocked

\* VirtualGPIO_Init without the test of line 74: it writes the defaults again.
VirtualGPIO_Reinit ==
    /\ GpioReturns([p \in PortIds |-> DefaultPort], gpio_last_error, 0, FALSE, -1)
    /\ UNCHANGED <<clocked, driven>>

\* VirtualGPIO_Init (lines 73-99), called explicitly.
VirtualGPIO_Init ==
    /\ GpioReturns(InitPorts, gpio_last_error, 0, FALSE, -1)
    /\ UNCHANGED <<clocked, driven>>

\* VirtualGPIO_SetErrorInjection (lines 102-105).
VirtualGPIO_SetErrorInjection(enable) ==
    /\ gpio_error_injection_enabled' = enable
    /\ gpio_ret' = 0
    /\ gpio_fault' = FALSE
    /\ UNCHANGED nvicVars
    /\ gpio_read' = -1
    /\ gpio_edge' = -1
    /\ gpio_invoked' = <<>>
    /\ UNCHANGED <<gpio_ports, gpio_initialized, gpio_last_error, clocked,
                   driven, hal_status>>

\* VirtualGPIO_EnableClock (lines 126-139); last_error is left as it is on
\* success.
VirtualGPIO_EnableClock(port) ==
    /\ UNCHANGED driven
    /\ IF port >= MAX_GPIO_PORTS
       THEN GpioFails(GPIO_ERROR_INVALID_PORT)
       ELSE \E inj \in GpioInjectOutcomes :
              IF inj # 0
              THEN GpioFaults(inj)
              ELSE /\ GpioReturns([InitPorts EXCEPT ![port].clock_enabled = 1],
                                  gpio_last_error, 1, FALSE, -1)
                   /\ clocked' = clocked \cup {port}

\* A configuration that also resets the level of the pin.
ConfiguredPinReset(p, mode, output_type, speed, pupd) ==
    [p EXCEPT !.mode = mode, !.output_type = output_type,
              !.speed = speed, !.pupd = pupd, !.value = 0]

\* The pin as VirtualGPIO_ConfigurePin leaves it (lines 168-172).
ConfiguredPin(p, mode, output_type, speed, pupd) ==
    [p EXCEPT !.mode = mode, !.output_type = output_type,
              !.speed = speed, !.pupd = pupd]

\* A clock test that always lets the call through.
ClockNeverOff(ports, port) == FALSE

\* `!gpio_ports[port].clock_enabled` (line 158).
ClockOff(ports, port) == ports[port].clock_enabled = 0

\* VirtualGPIO_ConfigurePin (lines 142-179).
VirtualGPIO_ConfigurePin(port, pin, mode, output_type, speed, pupd) ==
    /\ UNCHANGED clocked
    /\ IF port >= MAX_GPIO_PORTS
       THEN GpioFails(GPIO_ERROR_INVALID_PORT)
       ELSE IF pin >= MAX_GPIO_PINS
       THEN GpioFails(GPIO_ERROR_INVALID_PIN)
       ELSE IF ClockOff(InitPorts, port)
       THEN GpioFails(GPIO_ERROR_CONFIG)
       ELSE \E inj \in GpioInjectOutcomes :
              IF inj # 0
              THEN GpioFaults(inj)
              ELSE GpioReturns(
                     [InitPorts EXCEPT ![port].pins[pin] =
                        ConfiguredPin(@, mode, output_type, speed, pupd)],
                     GPIO_ERROR_NONE, 1, FALSE, -1)
    /\ driven' = IF gpio_ret' = 1 /\ mode # GPIO_MODE_OUTPUT
                 THEN [driven EXCEPT ![<<port, pin>>] = -1]
                 ELSE driven

\* VirtualGPIO_SetAltFunction (lines 182-205); the PINMUX warning of line 195
\* is overwritten at line 203.
VirtualGPIO_SetAltFunction(port, pin, alt_func) ==
    /\ UNCHANGED <<clocked, driven>>
    /\ IF port >= MAX_GPIO_PORTS \/ pin >= MAX_GPIO_PINS
       THEN GpioFails(GPIO_ERROR_PINMUX)
       ELSE \E inj \in GpioInjectOutcomes :
              IF inj # 0
              THEN GpioFaults(inj)
              ELSE GpioReturns(
                     [InitPorts EXCEPT ![port].pins[pin].alt_function = alt_func],
                     GPIO_ERROR_NONE, 1, FALSE, -1)

\* A level stored as it is given.
Unnormalised(value) == value

\* `value ? 1 : 0` (line 224).
Normalised(value) == IF value # 0 THEN 1 ELSE 0

\* A write that stores the level before it consults inject_error.
WritePinThenInject(port, pin, value) ==
    /\ UNCHANGED clocked
    /\ IF port >= MAX_GPIO_PORTS \/ pin >= MAX_GPIO_PINS
       THEN GpioFails(GPIO_ERROR_INVALID_PORT)
       ELSE LET written == [InitPorts EXCEPT ![port].pins[pin].value =
                              IF value # 0 THEN 1 ELSE 0]
            IN \E inj \in GpioInjectOutcomes :
                 IF inj # 0
                 THEN GpioReturns(written, inj, 0, TRUE, -1)
                 ELSE GpioReturns(written, GPIO_ERROR_NONE, 1, FALSE, -1)
    /\ driven' = IF gpio_ret' = 1
                    /\ InitPorts[port].pins[pin].mode = GPIO_MODE_OUTPUT
                 THEN [driven EXCEPT ![<<port, pin>>] =
                                        IF value # 0 THEN 1 ELSE 0]
                 ELSE driven

\* VirtualGPIO_WritePin (lines 208-229).
VirtualGPIO_WritePin(port, pin, value) ==
    /\ UNCHANGED clocked
    /\ IF port >= MAX_GPIO_PORTS \/ pin >= MAX_GPIO_PINS
       THEN GpioFails(GPIO_ERROR_INVALID_PORT)
       ELSE \E inj \in GpioInjectOutcomes :
              IF inj # 0
              THEN GpioFaults(inj)
              ELSE GpioReturns(
                     [InitPorts EXCEPT ![port].pins[pin].value =
                        Normalised(value)],
                     GPIO_ERROR_NONE, 1, FALSE, -1)
    /\ driven' = IF gpio_ret' = 1
                    /\ InitPorts[port].pins[pin].mode = GPIO_MODE_OUTPUT
                 THEN [driven EXCEPT ![<<port, pin>>] =
                                        Normalised(value)]
                 ELSE driven

\* A read that samples the pull resistors in every mode.
SampledLevels(p) ==
    IF p.pupd = GPIO_PUPD_UP THEN {1}
    ELSE IF p.pupd = GPIO_PUPD_DOWN THEN {0}
    ELSE {0, 1}

\* A read that never samples the pull resistors.
StoredLevel(p) == {p.value}

\* The levels VirtualGPIO_ReadPin may store in *value (lines 245-256); a
\* floating input reads rand() % 2.
ReadLevels(p) ==
    IF p.mode = GPIO_MODE_INPUT
    THEN IF p.pupd = GPIO_PUPD_UP THEN {1}
         ELSE IF p.pupd = GPIO_PUPD_DOWN THEN {0}
         ELSE {0, 1}
    ELSE {p.value}

\* VirtualGPIO_ReadPin (lines 232-262).
VirtualGPIO_ReadPin(port, pin) ==
    /\ UNCHANGED <<clocked, driven>>
    /\ IF port >= MAX_GPIO_PORTS \/ pin >= MAX_GPIO_PINS
       THEN GpioFails(GPIO_ERROR_INVALID_PIN)
       ELSE \E inj \in GpioInjectOutcomes :
              IF inj # 0
              THEN GpioFaults(inj)
              ELSE \E v \in ReadLevels(InitPorts[port].pins[pin]) :
                     GpioReturns(
                       IF InitPorts[port].pins[pin].mode = GPIO_MODE_INPUT
                       THEN [InitPorts EXCEPT ![port].pins[pin].value = v]
                       ELSE InitPorts,
                       GPIO_ERROR_NONE, 1, FALSE, v)

\* A toggle that drives the pin high whatever its level.
SetHigh(ports, port, pin) ==
    [ports EXCEPT ![port].pins[pin].value = 1]

\* `p->value = !p->value` (line 274).
Toggled(ports, port, pin) ==
    [ports EXCEPT ![port].pins[pin].value = IF @ = 0 THEN 1 ELSE 0]

\* VirtualGPIO_TogglePin (lines 265-281).
VirtualGPIO_TogglePin(port, pin) ==
    /\ UNCHANGED clocked
    /\ IF port >= MAX_GPIO_PORTS \/ pin >= MAX_GPIO_PINS
       THEN GpioFails(GPIO_ERROR_INVALID_PIN)
       ELSE GpioReturns(Toggled(InitPorts, port, pin),
                        GPIO_ERROR_NONE, 1, FALSE, -1)
    /\ driven' = IF gpio_ret' = 1 /\ driven[<<port, pin>>] # -1
                 THEN [driven EXCEPT ![<<port, pin>>] = 1 - @]
                 ELSE driven

\* VirtualGPIO_ConfigureInterrupt (lines 284-305).
VirtualGPIO_ConfigureInterrupt(port, pin, mode, handler) ==
    /\ UNCHANGED clocked
    /\ IF port >= MAX_GPIO_PORTS \/ pin >= MAX_GPIO_PINS
       THEN GpioFails(GPIO_ERROR_INTERRUPT)
       ELSE \E inj \in GpioInjectOutcomes :
              IF inj # 0
              THEN GpioFaults(inj)
              ELSE GpioReturns(
                     [InitPorts EXCEPT ![port].pins[pin] =
                        [@ EXCEPT !.mode = mode, !.irq_enabled = 1,
                                  !.irq_handler = handler]],
                     GPIO_ERROR_NONE, 1, FALSE, -1)
    /\ driven' = IF gpio_ret' = 1 /\ mode # GPIO_MODE_OUTPUT
                 THEN [driven EXCEPT ![<<port, pin>>] = -1]
                 ELSE driven

\* A trigger test that ignores the edge.
TriggerOnAnyEdge(mode, edge) ==
    mode \in {GPIO_MODE_IT_RISING, GPIO_MODE_IT_FALLING, GPIO_MODE_IT_BOTH}

\* `should_trigger` of VirtualGPIO_SimulateInterrupt (lines 325-330).
ShouldTrigger(mode, edge) ==
    \/ mode = GPIO_MODE_IT_RISING /\ edge = 1
    \/ mode = GPIO_MODE_IT_FALLING /\ edge = 0
    \/ mode = GPIO_MODE_IT_BOTH

\* The handler invocations VirtualGPIO_SimulateInterrupt makes (lines 311-341).
Invocations(ports, port, pin, edge) ==
    IF port >= MAX_GPIO_PORTS \/ pin >= MAX_GPIO_PINS THEN <<>>
    ELSE LET p == ports[port].pins[pin]
         IN IF p.irq_enabled = 0 THEN <<>>
            ELSE IF ShouldTrigger(p.mode, edge) /\ p.irq_handler # NULL
                 THEN << <<p.irq_handler, port, pin>> >>
                 ELSE <<>>

\* VirtualGPIO_SimulateInterrupt (lines 308-342); the handler logs and returns.
VirtualGPIO_SimulateInterrupt(port, pin, edge) ==
    /\ gpio_initialized' = TRUE
    /\ gpio_ports' = InitPorts
    /\ gpio_ret' = 0
    /\ gpio_fault' = FALSE
    /\ UNCHANGED nvicVars
    /\ gpio_read' = -1
    /\ gpio_edge' = edge
    /\ gpio_invoked' = Invocations(InitPorts, port, pin, edge)
    /\ UNCHANGED <<gpio_error_injection_enabled, gpio_last_error, clocked,
                   driven, hal_status>>

InitGPIO ==
    /\ gpio_ports = [p \in PortIds |-> DefaultPort]
    /\ gpio_initialized = FALSE
    /\ gpio_error_injection_enabled = FALSE
    /\ gpio_last_error = GPIO_ERROR_NONE
    /\ gpio_ret = 0
    /\ gpio_fault = FALSE
    /\ gpio_read = -1
    /\ gpio_edge = -1
    /\ gpio_invoked = <<>>
    /\ clocked = {}
    /\ driven = [x \in PortIds \X PinIds |-> -1]
    /\ hal_status = -1

----------------------------------------------------------------------------
(* sim_hal_wrapper.c *)

\* Bitwise and, and bitwise or, of two naturals.
RECURSIVE BitAnd(_, _)
BitAnd(a, b) ==
    IF a = 0 \/ b = 0 THEN 0
    ELSE (IF a % 2 = 1 /\ b % 2 = 1 THEN 1 ELSE 0)
         + 2 * BitAnd(a \div 2, b \div 2)

RECURSIVE BitOr(_, _)
BitOr(a, b) ==
    IF a = 0 THEN b
    ELSE IF b = 0 THEN a
    ELSE (IF a % 2 = 1 \/ b % 2 = 1 THEN 1 ELSE 0)
         + 2 * BitOr(a \div 2, b \div 2)

\* `x << 2` on a uint32_t: the two highest bits are shifted out.
ShiftLeft2(x) == (x % 1073741824) * 4

\* The conversion to uint8_t.
Uint8(x) == x % 256

\* `priority` of HAL_NVIC_SetPriority (lines 189-190): the two fields are
\* combined in 32 bits, stored in a uint8_t and then clamped.
CombinedPriority(preempt_priority, sub_priority) ==
    LET priority == Uint8(BitOr(ShiftLeft2(preempt_priority),
                                BitAnd(sub_priority, 3)))
    IN IF priority > 15 THEN 15 ELSE priority

\* HAL_NVIC_SetPriority (lines 184-193).
HAL_NVIC_SetPriority(irq_num, preempt_priority, sub_priority) ==
    VirtualNVIC_SetPriority(irq_num,
                            CombinedPriority(preempt_priority, sub_priority))

\* Bits shift .. shift + width - 1 of x: (x >> shift) & (2^width - 1).
Bits(x, shift, width) == (x \div (2 ^ shift)) % (2 ^ width)

\* hal_mode_to_virtual (lines 85-95): the switch on `hal_mode & 0xFF`.
hal_mode_to_virtual(hal_mode) ==
    LET low == Bits(hal_mode, 0, 8)
    IN IF low = 0 THEN 0
       ELSE IF low = 1 THEN 1
       ELSE IF low = 2 THEN 2
       ELSE IF low = 3 THEN 3
       ELSE IF low = 17 THEN 1
       ELSE IF low = 18 THEN 2
       ELSE 0

\* is_interrupt_mode (lines 98-100): bit 0x10000000.
is_interrupt_mode(hal_mode) == Bits(hal_mode, 28, 1) # 0

\* get_interrupt_type (lines 103-108): the tests of bits 0x00100000,
\* 0x00200000 and 0x00300000, in this order.
get_interrupt_type(hal_mode) ==
    IF Bits(hal_mode, 20, 1) # 0 THEN 4
    ELSE IF Bits(hal_mode, 21, 1) # 0 THEN 5
    ELSE IF Bits(hal_mode, 20, 2) # 0 THEN 6
    ELSE 4

\* How a call of HAL_GPIO_Init ends that stops after some of its steps: the
\* table, last_error, whether it returns HAL_OK, whether inject_error stopped
\* it, whether EnableClock and whether a configuring call have succeeded.
HalOutcome(ports, err, ok, fault, clock, conf) ==
    [ports |-> ports, err |-> err, ok |-> ok, fault |-> fault,
     clock |-> clock, conf |-> conf]

\* HAL_GPIO_Init (lines 111-150) with a structure that is not NULL, as a
\* function of what its calls of inject_error give: inj1 in EnableClock,
\* inj2 in ConfigureInterrupt or ConfigurePin, inj3 in SetAltFunction.  The
\* 32-bit fields are converted to the uint8_t parameters of the callees.
HalGpioInit(port, Pin, Mode, Pull, Speed, Alternate, inj1, inj2, inj3) ==
    LET pin == Uint8(Pin)
    IN IF port >= MAX_GPIO_PORTS
       THEN HalOutcome(InitPorts, GPIO_ERROR_INVALID_PORT, FALSE, FALSE, FALSE, FALSE)
       ELSE IF inj1 # 0
       THEN HalOutcome(InitPorts, inj1, FALSE, TRUE, FALSE, FALSE)
       ELSE
         LET on == [InitPorts EXCEPT ![port].clock_enabled = 1]
         IN IF is_interrupt_mode(Mode)
            THEN IF pin >= MAX_GPIO_PINS
                 THEN HalOutcome(on, GPIO_ERROR_INTERRUPT, FALSE, FALSE, TRUE, FALSE)
                 ELSE IF inj2 # 0
                 THEN HalOutcome(on, inj2, FALSE, TRUE, TRUE, FALSE)
                 ELSE HalOutcome(
                        [on EXCEPT ![port].pins[pin] =
                           [@ EXCEPT !.mode = get_interrupt_type(Mode),
                                     !.irq_enabled = 1, !.irq_handler = NULL]],
                        GPIO_ERROR_NONE, TRUE, FALSE, TRUE, TRUE)
            ELSE
              LET mode == hal_mode_to_virtual(Mode)
                  output_type == IF Bits(Mode, 4, 1) # 0 THEN 1 ELSE 0
              IN IF pin >= MAX_GPIO_PINS
                 THEN HalOutcome(on, GPIO_ERROR_INVALID_PIN, FALSE, FALSE, TRUE, FALSE)
                 ELSE IF ClockOff(on, port)
                 THEN HalOutcome(on, GPIO_ERROR_CONFIG, FALSE, FALSE, TRUE, FALSE)
                 ELSE IF inj2 # 0
                 THEN HalOutcome(on, inj2, FALSE, TRUE, TRUE, FALSE)
                 ELSE
                   LET configured ==
                         [on EXCEPT ![port].pins[pin] =
                            ConfiguredPin(@, mode, output_type,
                                          Uint8(Speed), Uint8(Pull))]
                   IN IF mode # 2
                      THEN HalOutcome(configured, GPIO_ERROR_NONE,
                                      TRUE, FALSE, TRUE, TRUE)
                      ELSE IF inj3 # 0
                      THEN HalOutcome(configured, inj3, FALSE, TRUE, TRUE, TRUE)
                      ELSE HalOutcome(
                             [configured EXCEPT ![port].pins[pin].alt_function
                                                  = Uint8(Alternate)],
                             GPIO_ERROR_NONE, TRUE, FALSE, TRUE, TRUE)

\* What the calls of inject_error of one HAL_GPIO_Init give: at most one of
\* them stops a call, and after it HAL_GPIO_Init makes no further call.
HalInjectOutcomes ==
    {<<0, 0, 0>>}
    \cup {<<inj, 0, 0>> : inj \in GpioInjectOutcomes}
    \cup {<<0, inj, 0>> : inj \in GpioInjectOutcomes}
    \cup {<<0, 0, inj>> : inj \in GpioInjectOutcomes}

\* HAL_GPIO_Init (lines 111-150): EnableClock, then ConfigureInterrupt, or
\* ConfigurePin and for an alternate mode SetAltFunction; it returns
\* HAL_ERROR at the first call that returns 0.
HAL_GPIO_Init(port, Pin, Mode, Pull, Speed, Alternate) ==
    \E inj \in HalInjectOutcomes :
      \E o \in {HalGpioInit(port, Pin, Mode, Pull, Speed, Alternate,
                            inj[1], inj[2], inj[3])} :
         /\ gpio_initialized' = TRUE
         /\ gpio_ports' = o.ports
         /\ gpio_last_error' = o.err
         /\ hal_status' = IF o.ok THEN HAL_OK ELSE HAL_ERROR
         /\ gpio_ret' = IF o.ok THEN 1 ELSE 0
         /\ gpio_fault' = o.fault
         /\ gpio_read' = -1
         /\ gpio_edge' = -1
         /\ gpio_invoked' = <<>>
         /\ clocked' = IF o.clock THEN clocked \cup {port} ELSE clocked
         /\ driven' = IF o.conf /\ o.ports[port].pins[Uint8(Pin)].mode # GPIO_MODE_OUTPUT
                      THEN [driven EXCEPT ![<<port, Uint8(Pin)>>] = -1]
                      ELSE driven
         /\ UNCHANGED gpio_error_injection_enabled
         /\ UNCHANGED nvicVars

\* HAL_Init (lines 201-206): VirtualGPIO_Init, then VirtualNVIC_Init.
HAL_Init ==
    /\ CanCall
    /\ gpio_initialized' = TRUE
    /\ gpio_ports' = InitPorts
    /\ gpio_ret' = 0
    /\ gpio_fault' = FALSE
    /\ gpio_read' = -1
    /\ gpio_edge' = -1
    /\ gpio_invoked' = <<>>
    /\ nvic_initialized' = TRUE
    /\ global_irq_enabled' = InitGate
    /\ irq_lines' = InitLines
    /\ nvic_ret' = 0
    /\ nvic_fault' = FALSE
    /\ stack' = Charge(stack)
    /\ UNCHANGED <<gpio_error_injection_enabled, gpio_last_error, clocked,
                   driven, hal_status,
                   nvic_error_injection_enabled, nvic_last_error, gate_closed>>

----------------------------------------------------------------------------
(* The program: static storage, then any sequence of calls *)

InitNVIC ==
    /\ irq_lines = [i \in IrqIds |-> ZeroIRQ]
    /\ nvic_initialized = FALSE
    /\ global_irq_enabled = TRUE
    /\ nvic_error_injection_enabled = FALSE
    /\ nvic_last_error = NVIC_ERROR_NONE
    /\ stack = <<>>
    /\ nvic_ret = 0
    /\ nvic_fault = FALSE
    /\ gate_closed = FALSE

Init == InitNVIC /\ InitGPIO

\* The calls that configure and signal lines, over the given arguments.
NvicCall(ids, priorities, handlers) ==
    \/ VirtualNVIC_Init
    \/ \E i \in ids : VirtualNVIC_EnableIRQ(i)
    \/ \E i \in ids : VirtualNVIC_DisableIRQ(i)
    \/ \E i \in ids, p \in priorities : VirtualNVIC_SetPriority(i, p)
    \/ \E i \in ids, h \in handlers : VirtualNVIC_SetHandler(i, h)
    \/ \E i \in ids : VirtualNVIC_SetPending(i)
    \/ \E i \in ids : VirtualNVIC_ClearPending(i)
    \/ \E i \in ids : VirtualNVIC_IsPending(i)
    \/ VirtualNVIC_EnableGlobalIRQ
    \/ VirtualNVIC_DisableGlobalIRQ

\* The interrupt controller, fault injection off: the main line and the
\* handlers call the API in any order, and handlers may dispatch from within.
NextNVIC ==
    \/ NvicCall(IrqInputs, PriorityInputs, {NULL, BusyHandler})
    \/ VirtualNVIC_ProcessInterrupts
    \/ HandlerReturn

SpecNVIC == Init /\ [][NextNVIC]_vars

\* Arguments of the program that drains with ProcessAllPending.
DrainIrqInputs == {0, 1}
DrainPriorityInputs == {1, MAX_PRIORITY}

\* The same controller driven by a main line that also drains with
\* ProcessAllPending; its handlers log, or call the API, but do not drain.
NextAll ==
    \/ NvicCall(DrainIrqInputs, DrainPriorityInputs, Handlers \cup {NULL})
    \/ VirtualNVIC_ProcessInterrupts
    \/ stack = <<>> /\ VirtualNVIC_ProcessAllPending
    \/ LoopTurn
    \/ HandlerReturn

SpecAll == Init /\ [][NextAll]_vars

\* The program runs on: a loop in progress takes its next turn and a handler
\* that is running returns.
FairSpecAll == SpecAll /\ WF_vars(LoopTurn) /\ WF_vars(HandlerReturn)

\* The pin library driven through one pin of a clocked and one of an unclocked
\* port, with out-of-range port and pin numbers; fault injection stays off.
GpioClockInputs == 0 .. MAX_GPIO_PORTS
GpioPortInputs == {0, MAX_GPIO_PORTS}
GpioPinInputs == {1, MAX_GPIO_PINS}
ConfigInputs ==
    { <<GPIO_MODE_OUTPUT, GPIO_OTYPE_PP, GPIO_SPEED_HIGH, GPIO_PUPD_NONE>>,
      <<GPIO_MODE_INPUT, GPIO_OTYPE_PP, GPIO_SPEED_LOW, GPIO_PUPD_UP>>,
      <<GPIO_MODE_INPUT, GPIO_OTYPE_PP, GPIO_SPEED_LOW, GPIO_PUPD_DOWN>>,
      <<GPIO_MODE_ALTERNATE, GPIO_OTYPE_OD, GPIO_SPEED_FAST, GPIO_PUPD_NONE>>,
      <<GPIO_MODE_ANALOG, GPIO_OTYPE_PP, GPIO_SPEED_LOW, GPIO_PUPD_NONE>> }
IrqModeInputs == {GPIO_MODE_IT_RISING, GPIO_MODE_IT_FALLING, GPIO_MODE_IT_BOTH,
                  GPIO_MODE_OUTPUT}
GpioHandlerInputs == {NULL, example_irq_handler}
AltFuncInputs == {7, 16}
ValueInputs == {0, 1, 255}
EdgeInputs == {0, 1, 2}

\* The calls on pins, over the given arguments.
GpioCall(ports, pins, configs, modes, alt_funcs) ==
    \/ \E port \in ports, pin \in pins, c \in configs :
         VirtualGPIO_ConfigurePin(port, pin, c[1], c[2], c[3], c[4])
    \/ \E port \in ports, pin \in pins, alt_func \in alt_funcs :
         VirtualGPIO_SetAltFunction(port, pin, alt_func)
    \/ \E port \in ports, pin \in pins, value \in ValueInputs :
         VirtualGPIO_WritePin(port, pin, value)
    \/ \E port \in ports, pin \in pins : VirtualGPIO_ReadPin(port, pin)
    \/ \E port \in ports, pin \in pins, mode \in modes,
          handler \in GpioHandlerInputs :
         VirtualGPIO_ConfigureInterrupt(port, pin, mode, handler)

NextGPIO ==
    \/ VirtualGPIO_Init
    \/ \E port \in GpioClockInputs : VirtualGPIO_EnableClock(port)
    \/ GpioCall(GpioPortInputs, GpioPinInputs, ConfigInputs, IrqModeInputs,
                AltFuncInputs)
    \/ \E port \in GpioPortInputs, pin \in GpioPinInputs :
         VirtualGPIO_TogglePin(port, pin)
    \/ \E port \in GpioPortInputs, pin \in GpioPinInputs, edge \in EdgeInputs :
         VirtualGPIO_SimulateInterrupt(port, pin, edge)

SpecGPIO == Init /\ [][NextGPIO]_vars

\* Both libraries with fault injection switched on and off, each driven through
\* one pin and one line.
FaultPortInputs == {0}
FaultPinInputs == {1}
FaultConfigInputs ==
    { <<GPIO_MODE_OUTPUT, GPIO_OTYPE_PP, GPIO_SPEED_HIGH, GPIO_PUPD_NONE>> }
FaultIrqInputs == {1}
FaultPriorityInputs == {1}

\* The calls of the pin library that consult inject_error.
InjectableGpioCall ==
    \/ \E port \in FaultPortInputs : VirtualGPIO_EnableClock(port)
    \/ GpioCall(FaultPortInputs, FaultPinInputs, FaultConfigInputs,
                {GPIO_MODE_IT_RISING}, {7})

\* The calls of the interrupt controller that consult inject_error.
InjectableNvicCall ==
    \/ \E irq_num \in FaultIrqInputs : VirtualNVIC_EnableIRQ(irq_num)
    \/ \E irq_num \in FaultIrqInputs, priority \in FaultPriorityInputs :
         VirtualNVIC_SetPriority(irq_num, priority)
    \/ \E irq_num \in FaultIrqInputs : VirtualNVIC_SetPending(irq_num)

NextFault ==
    \/ \E enable \in BOOLEAN : VirtualGPIO_SetErrorInjection(enable)
    \/ \E enable \in BOOLEAN : VirtualNVIC_SetErrorInjection(enable)
    \/ InjectableGpioCall
    \/ InjectableNvicCall
    \/ \E port \in FaultPortInputs, pin \in FaultPinInputs :
         VirtualGPIO_TogglePin(port, pin)

SpecFault == Init /\ [][NextFault]_vars

\* A program that works with one of the two libraries, as the standalone
\* programs of sim_gpio.c and sim_nvic.c do, with fault injection off: one pin
\* or one line, with port, pin and line numbers and priorities in and out of
\* range, and with the initialisation functions called at any time.
CorePortInputs == {0, MAX_GPIO_PORTS, 255}
CorePinInputs == {1, MAX_GPIO_PINS, 255}
CoreIrqInputs == {1, MAX_IRQ_LINES, 255}
CorePriorityInputs == {1, MAX_PRIORITY + 1, 255}

\* The calls of the pin library that take a port and a pin.
PinCall(ports, pins) ==
    \/ GpioCall(ports, pins, FaultConfigInputs, {GPIO_MODE_IT_RISING}, {7})
    \/ \E port \in ports, pin \in pins : VirtualGPIO_TogglePin(port, pin)
    \/ \E port \in ports, pin \in pins :
         VirtualGPIO_SimulateInterrupt(port, pin, 1)

\* The pin library is as its initialisation leaves it, or has not been used.
IdleGPIO ==
    /\ InitPorts = [p \in PortIds |-> DefaultPort]
    /\ gpio_last_error = GPIO_ERROR_NONE
    /\ ~gpio_error_injection_enabled
    /\ gpio_ret = 0 /\ ~gpio_fault /\ gpio_read = -1 /\ gpio_edge = -1
    /\ gpio_invoked = <<>> /\ clocked = {}
    /\ driven = [x \in PortIds \X PinIds |-> -1]

\* The interrupt controller is as its initialisation leaves it, or has not
\* been used.
IdleNVIC ==
    /\ InitLines = [i \in IrqIds |-> DefaultIRQ]
    /\ global_irq_enabled /\ ~gate_closed
    /\ nvic_last_error = NVIC_ERROR_NONE
    /\ ~nvic_error_injection_enabled
    /\ nvic_ret = 0 /\ ~nvic_fault /\ stack = <<>>

NextCore ==
    \/ HAL_Init
    \/ IdleNVIC /\ VirtualGPIO_Init
    \/ IdleNVIC /\ \E port \in CorePortInputs : VirtualGPIO_EnableClock(port)
    \/ IdleNVIC /\ PinCall(CorePortInputs, CorePinInputs)
    \/ IdleGPIO /\ NvicCall(CoreIrqInputs, CorePriorityInputs,
                              {NULL, QuietHandler})
    \/ IdleGPIO /\ VirtualNVIC_ProcessInterrupts
    \/ IdleGPIO /\ HandlerReturn

SpecCore == Init /\ [][NextCore]_vars

\* The priorities of one line set directly and through the adapter, with
\* fault injection off.
PriorityIrqInputs == {0, MAX_IRQ_LINES}
DirectPriorityInputs == {0, 7, MAX_PRIORITY, MAX_PRIORITY + 1, 255}
PreemptInputs == {0, 1, 3, 4, 64, 67}
SubInputs == {0, 1, 3, 4, 7}

NextPriority ==
    \/ NvicCall(PriorityIrqInputs, DirectPriorityInputs, {NULL})
    \/ \E irq_num \in PriorityIrqInputs, preempt_priority \in PreemptInputs,
          sub_priority \in SubInputs :
         HAL_NVIC_SetPriority(irq_num, preempt_priority, sub_priority)
    \/ VirtualNVIC_ProcessInterrupts

SpecPriority == Init /\ [][NextPriority]_vars

\* A program that configures one pin through the adapter, with fault
\* injection switched on and off: the nine modes of the adapter, a pin and a
\* port within and beyond the table, and edges simulated on the pin.
HalPortInputs == {0, MAX_GPIO_PORTS}
HalPinInputs == {1, MAX_GPIO_PINS}
HalModeInputs ==
    {HAL_GPIO_MODE_INPUT, HAL_GPIO_MODE_OUTPUT_PP, HAL_GPIO_MODE_OUTPUT_OD,
     HAL_GPIO_MODE_AF_PP, HAL_GPIO_MODE_AF_OD, HAL_GPIO_MODE_ANALOG,
     HAL_GPIO_MODE_IT_RISING, HAL_GPIO_MODE_IT_FALLING,
     HAL_GPIO_MODE_IT_RISING_FALLING}
HalPullInputs == {GPIO_NOPULL, GPIO_PULLUP}
HalSpeedInputs == {GPIO_SPEED_FREQ_LOW, GPIO_SPEED_FREQ_VERY_HIGH}
HalAlternateInputs == {7}

NextHAL ==
    \/ \E enable \in BOOLEAN : VirtualGPIO_SetErrorInjection(enable)
    \/ \E port \in HalPortInputs, Pin \in HalPinInputs, Mode \in HalModeInputs,
          Pull \in HalPullInputs, Speed \in HalSpeedInputs,
          Alternate \in HalAlternateInputs :
         HAL_GPIO_Init(port, Pin, Mode, Pull, Speed, Alternate)
    \/ \E edge \in {0, 1} : VirtualGPIO_SimulateInterrupt(0, 1, edge)

SpecHAL == Init /\ [][NextHAL]_vars

\* A program that works on two pins of port 0, with the clocks of two ports
\* and one line of the interrupt controller, fault injection off.
LocalPortInputs == {0}
LocalPinInputs == {0, 1}
LocalClockInputs == {0, 1}
LocalIrqInputs == {0}

\* The calls on one pin.
LocalPinCall(port, pin) ==
    \/ VirtualGPIO_ConfigurePin(port, pin, GPIO_MODE_OUTPUT, GPIO_OTYPE_PP,
                                GPIO_SPEED_HIGH, GPIO_PUPD_NONE)
    \/ VirtualGPIO_SetAltFunction(port, pin, 7)
    \/ VirtualGPIO_WritePin(port, pin, 1)
    \/ VirtualGPIO_ReadPin(port, pin)
    \/ VirtualGPIO_TogglePin(port, pin)
    \/ VirtualGPIO_ConfigureInterrupt(port, pin, GPIO_MODE_IT_RISING,
                                      example_irq_handler)

LocalNvicCall ==
    \/ \E i \in LocalIrqInputs : VirtualNVIC_EnableIRQ(i)
    \/ \E i \in LocalIrqInputs : VirtualNVIC_SetPending(i)
    \/ VirtualNVIC_ProcessInterrupts

NextLocal ==
    \/ \E port \in LocalClockInputs : VirtualGPIO_EnableClock(port)
    \/ \E port \in LocalPortInputs, pin \in LocalPinInputs :
         LocalPinCall(port, pin)
    \/ \E port \in LocalPortInputs, pin \in LocalPinInputs :
         VirtualGPIO_SimulateInterrupt(port, pin, 1)
    \/ LocalNvicCall

SpecLocal == Init /\ [][NextLocal]_vars

----------------------------------------------------------------------------
(* Properties *)

\* i is dispatched before j: lower priority value first, then lower id.
Before(lines, i, j) ==
    \/ lines[i].priority < lines[j].priority
    \/ lines[i].priority = lines[j].priority /\ i < j

\* ProcessInterrupts has just entered the handler of line w.
JustEntered(w) ==
    /\ InHandler
    /\ Top.irq = w
    /\ Top.left = MaxHandlerCalls
    /\ irq_lines[w].handler = BusyHandler

\* C1: with the gate enabled and some line eligible, ProcessInterrupts
\* dispatches exactly one line, the eligible line that comes first by
\* (priority, id): its pending flag is cleared and its handler entered, and
\* no other line, eligible or not, is touched.
C1_DispatchesMostUrgent ==
    [][(VirtualNVIC_ProcessInterrupts /\ InitGate /\ Eligible(InitLines) # {})
        => \E w \in Eligible(InitLines) :
              /\ \A j \in Eligible(InitLines) \ {w} : Before(InitLines, w, j)
              /\ ~irq_lines'[w].pending
              /\ irq_lines'[w].active = (InitLines[w].handler # NULL)
              /\ InitLines[w].handler # NULL =>
                    /\ Len(stack') = Len(stack) + 1
                    /\ stack'[Len(stack')].kind = "isr"
                    /\ stack'[Len(stack')].irq = w
              /\ InitLines[w].handler = NULL => Len(stack') = Len(stack)
              /\ \A j \in IrqIds \ {w} : irq_lines'[j] = InitLines[j]]_vars

\* C1's case: line w was dispatched ahead of an eligible line of the same
\* priority and a higher id, and ahead of a less urgent eligible line.
C1_Witness ==
    \E w \in IrqIds :
        /\ JustEntered(w)
        /\ \E j \in Eligible(irq_lines) :
              j > w /\ irq_lines[j].priority = irq_lines[w].priority
        /\ \E k \in Eligible(irq_lines) :
              k < w /\ irq_lines[k].priority > irq_lines[w].priority

\* C2: at most one line is active.
C2_AtMostOneActive ==
    Cardinality({i \in IrqIds : irq_lines[i].active}) <= 1

\* A ProcessAllPending is in progress.
InAll == \E k \in 1 .. Len(stack) : stack[k].kind = "all"

\* C6: every ProcessAllPending returns.
C6_ProcessAllTerminates == InAll ~> ~InAll

\* C6's case: a ProcessAllPending has returned at the safety limit, with the
\* gate enabled, the handler having marked a line pending again each time.
C6_Witness ==
    /\ stack = <<>>
    /\ nvic_ret > SAFETY_LIMIT
    /\ global_irq_enabled
    /\ \E i \in Eligible(irq_lines) : irq_lines[i].handler = BusyHandler

\* C7: one ProcessAllPending makes at most 100 calls of ProcessInterrupts:
\* the count it reports is at most 100, and the call of ProcessInterrupts
\* whose handler is running is at most the 100th.
C7_AtMostLimitCalls ==
    /\ nvic_ret <= SAFETY_LIMIT
    /\ \A k \in 1 .. Len(stack) :
          (stack[k].kind = "all" /\ k < Len(stack))
             => stack[k].processed + 1 <= SAFETY_LIMIT

\* The flags dispatch works on.
Flags(lines) == [i \in IrqIds |-> <<lines[i].pending, lines[i].active>>]

\* A step that enters a handler.
EntersHandler ==
    Len(stack') > Len(stack) /\ stack'[Len(stack')].kind = "isr"

\* C8: from DisableGlobalIRQ to the next EnableGlobalIRQ, no step of
\* ProcessInterrupts or ProcessAllPending enters a handler or changes a
\* pending or active flag.
C8_ClosedGateHolds ==
    [][(gate_closed /\ (VirtualNVIC_ProcessInterrupts \/ LoopTurn
                         \/ VirtualNVIC_ProcessAllPending))
        => (~EntersHandler /\ Flags(irq_lines') = Flags(irq_lines))]_vars

\* s lists lines in dispatch order.
Ascending(lines, s) ==
    \A a, b \in 1 .. Len(s) : a < b => Before(lines, s[a], s[b])

\* The step on which the outermost ProcessAllPending returns.
LoopEnds ==
    /\ stack # <<>>
    /\ stack[1].kind = "all"
    /\ stack' = <<>>
    /\ LoopTurn \/ HandlerReturn

\* C9: with the gate enabled and handlers that leave the controller alone,
\* ProcessAllPending has, when it returns, dispatched each line that was
\* eligible at the call exactly once, in ascending (priority, id) order,
\* and no line is left enabled and pending.
C9_DrainsInOrder ==
    [][(LoopEnds /\ global_irq_enabled /\ stack[1].quiet /\ AllQuiet(irq_lines))
        => LET s == stack[1].served
           IN /\ {s[a] : a \in 1 .. Len(s)} = stack[1].eligible
              /\ Len(s) = Cardinality(stack[1].eligible)
              /\ nvic_ret' = Len(s)
              /\ Ascending(irq_lines, s)
              /\ \A i \in IrqIds :
                    ~(irq_lines'[i].enabled /\ irq_lines'[i].pending)]_vars

\* C9's case: two lines were pending and the loop dispatched line 1, of
\* priority 1, ahead of line 0, of priority 15.
C9_Witness ==
    /\ Len(stack) = 1
    /\ Top.kind = "all"
    /\ Top.served = <<1, 0>>
    /\ Top.eligible = {0, 1}
    /\ Top.quiet
    /\ global_irq_enabled
    /\ irq_lines[0].handler = QuietHandler
    /\ irq_lines[1].handler = NULL


----------------------------------------------------------------------------
(* Claims about the pin library *)

\* The four fields VirtualGPIO_ConfigurePin writes.
Setup(p) == <<p.mode, p.output_type, p.speed, p.pupd>>

\* Every field of a pin's configuration.
Configuration(p) ==
    <<p.mode, p.output_type, p.speed, p.pupd, p.alt_function, p.irq_handler>>

\* C3: with fault injection off, ConfigurePin on a valid pin of a port for
\* which no EnableClock has yet succeeded returns failure with the
\* clock-not-enabled error and leaves mode, output type, speed and pull as they
\* were; on a port for which EnableClock has succeeded it returns success.
C3_ClockGatesConfigurePin ==
    [][\A port \in PortIds, pin \in PinIds, c \in ConfigInputs :
         (~gpio_error_injection_enabled
            /\ VirtualGPIO_ConfigurePin(port, pin, c[1], c[2], c[3], c[4]))
         => IF port \in clocked
            THEN gpio_ret' = 1
            ELSE /\ gpio_ret' = 0
                 /\ gpio_last_error' = GPIO_ERROR_CONFIG
                 /\ Setup(gpio_ports'[port].pins[pin])
                      = Setup(InitPorts[port].pins[pin])]_vars

\* ConfigurePin has been refused with the clock-not-enabled error on port 0,
\* whose clock is off while that of port 1 is on.
C3_Witness ==
    /\ clocked = {1}
    /\ gpio_ret = 0
    /\ gpio_last_error = GPIO_ERROR_CONFIG
    /\ gpio_ports[0].clock_enabled = 0
    /\ Setup(gpio_ports[0].pins[1]) = Setup(DefaultPin)

\* ConfigurePin has succeeded on port 0 once its clock was enabled.
C3_ConfiguredReached ==
    /\ clocked = {0}
    /\ gpio_ret = 1
    /\ gpio_last_error = GPIO_ERROR_NONE
    /\ Setup(gpio_ports[0].pins[1])
         = <<GPIO_MODE_ALTERNATE, GPIO_OTYPE_OD, GPIO_SPEED_FAST, GPIO_PUPD_NONE>>

\* C4: a pin of a port whose clock is off has the configuration it was
\* created with, whatever calls have been made.
C4_UnclockedPinsKeepDefaults ==
    \A port \in PortIds, pin \in PinIds :
       gpio_ports[port].clock_enabled = 0
         => Configuration(gpio_ports[port].pins[pin]) = Configuration(DefaultPin)

\* C5: SimulateInterrupt on a valid pin makes exactly one invocation, of the
\* pin's stored handler with the pin's port and number, when the pin has a
\* handler and its mode is InterruptRising with a rising edge, InterruptFalling
\* with a falling edge, or InterruptBoth; otherwise it makes none.
C5_HandlerRunsIffEdgeMatches ==
    [][\A port \in PortIds, pin \in PinIds, edge \in {0, 1} :
         VirtualGPIO_SimulateInterrupt(port, pin, edge)
         => LET p == InitPorts[port].pins[pin]
                match == \/ p.mode = GPIO_MODE_IT_RISING /\ edge = 1
                         \/ p.mode = GPIO_MODE_IT_FALLING /\ edge = 0
                         \/ p.mode = GPIO_MODE_IT_BOTH
            IN IF p.irq_handler # NULL /\ match
               THEN gpio_invoked' = << <<p.irq_handler, port, pin>> >>
               ELSE gpio_invoked' = <<>>]_vars

\* A falling edge has been simulated on a pin configured for falling edges
\* and its handler has run once.
C5_Witness ==
    /\ gpio_edge = 0
    /\ gpio_ports[0].pins[1].mode = GPIO_MODE_IT_FALLING
    /\ gpio_invoked = << <<example_irq_handler, 0, 1>> >>

\* A rising edge has been simulated on a pin that has a handler and is
\* configured for falling edges, and nothing has run.
C5_MismatchReached ==
    /\ gpio_edge = 1
    /\ gpio_ports[0].pins[1].mode = GPIO_MODE_IT_FALLING
    /\ gpio_ports[0].pins[1].irq_handler = example_irq_handler
    /\ gpio_invoked = <<>>

----------------------------------------------------------------------------
(* Claims about fault injection *)

\* C10: a call that inject_error rejects returns 0 and leaves every field of
\* every pin, port and line as it was before the call, the tables taken as
\* their first use creates them: for EnableClock, ConfigurePin, SetAltFunction,
\* WritePin, ReadPin and ConfigureInterrupt, and for EnableIRQ, SetPriority and
\* SetPending.
C10_RejectedCallsChangeNothing ==
    [][/\ (InjectableGpioCall /\ gpio_fault')
            => /\ gpio_ret' = 0
               /\ gpio_ports' = InitPorts
               /\ irq_lines' = irq_lines
       /\ (InjectableNvicCall /\ nvic_fault')
            => /\ nvic_ret' = 0
               /\ irq_lines' = InitLines
               /\ gpio_ports' = gpio_ports]_vars

\* Calls of both libraries have been rejected with the pin configured as an
\* output driven high and the line enabled and pending.
C10_Witness ==
    /\ gpio_fault /\ gpio_ret = 0
    /\ gpio_ports[0].clock_enabled = 1
    /\ gpio_ports[0].pins[1].mode = GPIO_MODE_OUTPUT
    /\ gpio_ports[0].pins[1].value = 1
    /\ nvic_fault /\ nvic_ret = 0
    /\ irq_lines[1].enabled /\ irq_lines[1].pending
    /\ irq_lines[1].priority = 1

----------------------------------------------------------------------------
(* Claims about validation *)

\* A call of the pin library with a port or a pin beyond the table.
InvalidGpioCall ==
    \/ \E port \in CorePortInputs :
         port >= MAX_GPIO_PORTS /\ VirtualGPIO_EnableClock(port)
    \/ \E port \in CorePortInputs, pin \in CorePinInputs :
         /\ port >= MAX_GPIO_PORTS \/ pin >= MAX_GPIO_PINS
         /\ PinCall({port}, {pin})

\* A call of the interrupt controller with a line beyond the table, or of
\* SetPriority with a priority beyond MAX_PRIORITY.
InvalidNvicCall ==
    \/ \E irq_num \in CoreIrqInputs :
         /\ irq_num >= MAX_IRQ_LINES
         /\ NvicCall({irq_num}, CorePriorityInputs, {NULL, QuietHandler})
         /\ ~VirtualNVIC_Init
         /\ ~VirtualNVIC_EnableGlobalIRQ
         /\ ~VirtualNVIC_DisableGlobalIRQ
    \/ \E irq_num \in CoreIrqInputs, priority \in CorePriorityInputs :
         /\ priority > MAX_PRIORITY
         /\ VirtualNVIC_SetPriority(irq_num, priority)

\* C11: a call with a port, pin or line number beyond its table, and a
\* SetPriority with a priority above MAX_PRIORITY, returns 0, invokes no
\* handler and leaves every field of every pin, port and line as it was.
C11_InvalidCallsChangeNothing ==
    [][/\ InvalidGpioCall
            => /\ gpio_ret' = 0
               /\ gpio_invoked' = <<>>
               /\ gpio_ports' = InitPorts
               /\ irq_lines' = irq_lines
       /\ InvalidNvicCall
            => /\ nvic_ret' = 0
               /\ irq_lines' = InitLines
               /\ gpio_ports' = gpio_ports]_vars

\* A pin number out of range has been refused with the pin an output driven
\* high on a clocked port.
C11_Witness ==
    /\ gpio_ret = 0 /\ gpio_last_error = GPIO_ERROR_INVALID_PIN
    /\ gpio_ports[0].clock_enabled = 1
    /\ gpio_ports[0].pins[1].mode = GPIO_MODE_OUTPUT
    /\ gpio_ports[0].pins[1].value = 1
    /\ gpio_ports[0].pins[1].alt_function = 7

\* A priority out of range has been refused with the line enabled and pending.
C11_PriorityRefusedReached ==
    /\ nvic_ret = 0 /\ nvic_last_error = NVIC_ERROR_PRIORITY
    /\ irq_lines[1].enabled /\ irq_lines[1].pending
    /\ irq_lines[1].priority = 1
    /\ irq_lines[1].handler = QuietHandler

\* A line number out of range has been refused with the line enabled and
\* pending.
C11_LineRefusedReached ==
    /\ nvic_ret = 0 /\ nvic_last_error = NVIC_ERROR_INVALID_IRQ
    /\ irq_lines[1].enabled /\ irq_lines[1].pending
    /\ irq_lines[1].priority = 1

----------------------------------------------------------------------------
(* Claims about the level of a pin *)

\* C12: with fault injection off, ReadPin on a pin that has been written as
\* an output and has stayed an output since returns 1 and stores the level of
\* the most recent WritePin, negated once for each TogglePin made since.
C12_ReadsBackWrittenLevel ==
    [][\A port \in PortIds, pin \in PinIds :
         (/\ ~gpio_error_injection_enabled
          /\ driven[<<port, pin>>] # -1
          /\ VirtualGPIO_ReadPin(port, pin))
         => /\ InitPorts[port].pins[pin].mode = GPIO_MODE_OUTPUT
            /\ gpio_ret' = 1
            /\ gpio_read' = driven[<<port, pin>>]
            /\ driven' = driven]_vars

\* Pin 1 of port 0 was configured as an output through ConfigurePin and
\* written, and a read has given the low level it is driven to.
C12_Witness ==
    /\ 0 \in clocked
    /\ Setup(gpio_ports[0].pins[1])
         = <<GPIO_MODE_OUTPUT, GPIO_OTYPE_PP, GPIO_SPEED_HIGH, GPIO_PUPD_NONE>>
    /\ driven[<<0, 1>>] = 0
    /\ gpio_ret = 1 /\ gpio_read = 0

\* The same with the high level.
C12_HighReached ==
    /\ 0 \in clocked
    /\ gpio_ports[0].pins[1].mode = GPIO_MODE_OUTPUT
    /\ driven[<<0, 1>>] = 1
    /\ gpio_ret = 1 /\ gpio_read = 1

\* C13: TogglePin on a valid pin, in every mode and with fault injection on
\* or off, returns 1, turns the stored level 0 into 1 and 1 into 0 and changes
\* no other field; a second TogglePin would give back the table as it was.
C13_ToggleIsSelfInverse ==
    [][\A port \in PortIds, pin \in PinIds :
         VirtualGPIO_TogglePin(port, pin)
         => /\ gpio_ret' = 1
            /\ InitPorts[port].pins[pin].value \in {0, 1}
            /\ gpio_ports' = [InitPorts EXCEPT
                                ![port].pins[pin].value = 1 - @]
            /\ Toggled(gpio_ports', port, pin) = InitPorts
            /\ irq_lines' = irq_lines]_vars

\* A pin configured for rising edges has been toggled high with fault
\* injection on.
C13_Witness ==
    /\ gpio_error_injection_enabled
    /\ gpio_ret = 1 /\ ~gpio_fault
    /\ gpio_ports[0].pins[1].mode = GPIO_MODE_IT_RISING
    /\ gpio_ports[0].pins[1].value = 1
    /\ driven[<<0, 1>>] = -1

----------------------------------------------------------------------------
(* Claims about the lines of the interrupt controller *)

\* C14: DisableIRQ of a valid line returns 1 and clears the line's enabled
\* flag and nothing else: pending, active, priority and handler of the line
\* and every field of every other line are as before; and EnableIRQ of a line
\* sets only its enabled flag, so that a line that stayed pending while
\* disabled and is not active is eligible for dispatch again.
C14_DisableKeepsPending ==
    [][\A irq_num \in IrqIds :
         /\ VirtualNVIC_DisableIRQ(irq_num)
              => /\ nvic_ret' = 1
                 /\ irq_lines' = [InitLines EXCEPT ![irq_num].enabled = FALSE]
         /\ (VirtualNVIC_EnableIRQ(irq_num) /\ nvic_ret' = 1)
              => /\ irq_lines' = [InitLines EXCEPT ![irq_num].enabled = TRUE]
                 /\ (InitLines[irq_num].pending /\ ~InitLines[irq_num].active)
                      => irq_num \in Eligible(irq_lines')]_vars

\* Line 0 has been disabled while pending, with a handler and an urgent
\* priority, and is still pending.
C14_Witness ==
    /\ stack = <<>>
    /\ nvic_ret = 1 /\ nvic_last_error = NVIC_ERROR_NONE
    /\ ~irq_lines[0].enabled
    /\ irq_lines[0].pending
    /\ irq_lines[0].priority = 1
    /\ irq_lines[0].handler = BusyHandler
    /\ irq_lines[1].enabled /\ irq_lines[1].pending

\* C15: the priority of every line is within 0 .. MAX_PRIORITY.
C15_PriorityInRange ==
    \A i \in IrqIds :
       /\ irq_lines[i].priority \in 0 .. MAX_PRIORITY
       /\ InitLines[i].priority \in 0 .. MAX_PRIORITY

\* Line 0 has priority 13, which only the adapter stores, and a priority
\* beyond MAX_PRIORITY has then been refused.
C15_Witness ==
    /\ irq_lines[0].priority = 13
    /\ nvic_ret = 0 /\ nvic_last_error = NVIC_ERROR_PRIORITY

\* The smaller of two numbers.
Min(a, b) == IF a < b THEN a ELSE b

\* C18: with fault injection off, HAL_NVIC_SetPriority on a valid line leaves
\* the line with priority min(15, (preempt << 2) | sub).
C18_AdapterPriority ==
    [][\A irq_num \in IrqIds, preempt_priority \in PreemptInputs,
          sub_priority \in SubInputs :
         (/\ ~nvic_error_injection_enabled
          /\ HAL_NVIC_SetPriority(irq_num, preempt_priority, sub_priority))
         => irq_lines'[irq_num].priority
              = Min(15, BitOr(ShiftLeft2(preempt_priority), sub_priority))]_vars

----------------------------------------------------------------------------
(* Claims about the fields of a pin *)

\* C16: the alternate function of every pin is within 0 .. 15.
C16_AltFunctionInRange ==
    \A port \in PortIds, pin \in PinIds :
       /\ gpio_ports[port].pins[pin].alt_function \in 0 .. 15
       /\ InitPorts[port].pins[pin].alt_function \in 0 .. 15

----------------------------------------------------------------------------
(* Claims about initialisation *)

\* The fields of a pin, of a port and of a line as the first initialisation
\* is said to leave them.
PinAtDefault(p) ==
    /\ p.mode = GPIO_MODE_INPUT /\ p.output_type = GPIO_OTYPE_PP
    /\ p.speed = GPIO_SPEED_LOW /\ p.pupd = GPIO_PUPD_NONE
    /\ p.alt_function = 0 /\ p.value = 0
    /\ p.irq_enabled = 0 /\ p.irq_handler = NULL

PortAtDefault(q) ==
    /\ q.clock_enabled = 0
    /\ \A pin \in PinIds : PinAtDefault(q.pins[pin])

LineAtDefault(l) ==
    /\ ~l.enabled /\ ~l.pending /\ ~l.active
    /\ l.priority = 15 /\ l.handler = NULL

\* C17: each table is initialised once and stays initialised.  An explicit
\* VirtualGPIO_Init, VirtualNVIC_Init or HAL_Init that is the first use of a
\* table leaves every pin, port and line of it at the defaults; one made
\* when the table is initialised changes no field of it.  A first use by
\* any other call leaves the table at the defaults except for the one pin,
\* port clock or line the call itself writes.
C17_InitialisedOnce ==
    [][/\ gpio_initialized => gpio_initialized'
       /\ nvic_initialized => nvic_initialized'
       /\ (VirtualGPIO_Init \/ VirtualNVIC_Init \/ HAL_Init)
            => /\ gpio_initialized => gpio_ports' = gpio_ports
               /\ nvic_initialized => irq_lines' = irq_lines
               /\ (~gpio_initialized /\ gpio_initialized')
                    => \A port \in PortIds : PortAtDefault(gpio_ports'[port])
               /\ (~nvic_initialized /\ nvic_initialized')
                    => \A i \in IrqIds : LineAtDefault(irq_lines'[i])
       /\ (~gpio_initialized /\ gpio_initialized')
            => /\ Cardinality({x \in PortIds \X PinIds :
                    ~PinAtDefault(gpio_ports'[x[1]].pins[x[2]])}) <= 1
               /\ Cardinality({port \in PortIds :
                    gpio_ports'[port].clock_enabled # 0}) <= 1
       /\ (~nvic_initialized /\ nvic_initialized')
            => Cardinality({i \in IrqIds : ~LineAtDefault(irq_lines'[i])}) <= 1]_vars

\* VirtualNVIC_Init has just returned with line 1 enabled, pending, at
\* priority 1 and with a handler, as the calls before it left it.
C17_Witness ==
    /\ nvic_initialized
    /\ nvic_ret = 0 /\ stack = <<>>
    /\ irq_lines[1].enabled /\ irq_lines[1].pending
    /\ irq_lines[1].priority = 1
    /\ irq_lines[1].handler = QuietHandler

\* VirtualGPIO_Init or HAL_Init has just returned with the clock of port 0
\* on and pin 1 configured for a rising edge.
C17_PortsKeptReached ==
    /\ gpio_initialized
    /\ gpio_ret = 0 /\ gpio_read = -1 /\ gpio_invoked = <<>>
    /\ gpio_ports[0].clock_enabled = 1
    /\ gpio_ports[0].pins[1].mode = GPIO_MODE_IT_RISING

----------------------------------------------------------------------------
(* Claims about handlers *)

Selected == SelectedIRQ(InitLines, InitGate)

\* C20: a step of ProcessInterrupts that enters a handler leaves the
\* selected line active and not pending; the line of every running handler
\* is active; the return of a handler clears the active flag of its line and
\* nothing else, so that a line set pending by its own handler is pending
\* when ProcessInterrupts returns and, if still enabled, can be dispatched
\* again; and a selected line without a handler is left not pending and not
\* active, with no handler entered.
C20_DispatchOrder ==
    [][/\ (VirtualNVIC_ProcessInterrupts /\ Selected >= 0)
            => /\ ~irq_lines'[Selected].pending
               /\ \A i \in IrqIds \ {Selected} : irq_lines'[i] = InitLines[i]
               /\ IF InitLines[Selected].handler = NULL
                  THEN ~irq_lines'[Selected].active /\ ~EntersHandler
                  ELSE /\ irq_lines'[Selected].active
                       /\ EntersHandler
                       /\ stack'[Len(stack')].irq = Selected
       /\ \A k \in 1 .. Len(stack) :
            stack[k].kind = "isr" => irq_lines[stack[k].irq].active
       /\ HandlerReturn
            => /\ ~irq_lines'[Top.irq].active
               /\ \A i \in IrqIds :
                    /\ irq_lines'[i].pending = irq_lines[i].pending
                    /\ irq_lines'[i].enabled = irq_lines[i].enabled
                    /\ i # Top.irq => irq_lines'[i] = irq_lines[i]
               /\ (irq_lines[Top.irq].pending /\ irq_lines[Top.irq].enabled)
                    => Top.irq \in Eligible(irq_lines')]_vars

\* The handler of line 0 is running and has set its own line pending: the
\* line is active and pending.
C20_Witness ==
    /\ InHandler /\ Top.irq = 0
    /\ nvic_ret = 1
    /\ irq_lines[0].active /\ irq_lines[0].pending /\ irq_lines[0].enabled

----------------------------------------------------------------------------
(* Claims about reading and writing a pin *)

\* C21: a successful ReadPin of a pin in Input mode returns 1 when the pull
\* is Up and 0 when it is Down, whatever the stored value was, and stores the
\* level it returns as the pin's value and changes nothing else; in any other
\* mode it returns the stored value and changes no field.
C21_ReadPinByMode ==
    [][\A port \in PortIds, pin \in PinIds :
         (VirtualGPIO_ReadPin(port, pin) /\ gpio_ret' = 1)
         => LET p == InitPorts[port].pins[pin]
            IN IF p.mode = GPIO_MODE_INPUT
               THEN /\ p.pupd = GPIO_PUPD_UP => gpio_read' = 1
                    /\ p.pupd = GPIO_PUPD_DOWN => gpio_read' = 0
                    /\ gpio_ports'
                         = [InitPorts EXCEPT ![port].pins[pin].value = gpio_read']
               ELSE /\ gpio_read' = p.value
                    /\ gpio_ports' = InitPorts]_vars

\* An Input pin with pull Up has been read as 1 and holds 1.
C21_Witness ==
    /\ gpio_ret = 1 /\ gpio_read = 1
    /\ gpio_ports[0].pins[1].mode = GPIO_MODE_INPUT
    /\ gpio_ports[0].pins[1].pupd = GPIO_PUPD_UP
    /\ gpio_ports[0].pins[1].value = 1

\* An Input pin with pull Down has been read as 0.
C21_DownReached ==
    /\ gpio_ret = 1 /\ gpio_read = 0
    /\ gpio_ports[0].pins[1].mode = GPIO_MODE_INPUT
    /\ gpio_ports[0].pins[1].pupd = GPIO_PUPD_DOWN
    /\ gpio_ports[0].pins[1].value = 0

\* A pin configured for both edges has been read and gave its stored 1.
C21_StoredReached ==
    /\ gpio_ret = 1 /\ gpio_read = 1
    /\ gpio_ports[0].pins[1].mode = GPIO_MODE_IT_BOTH
    /\ gpio_ports[0].pins[1].value = 1

\* C22: SetAltFunction on a valid pin whose mode is not Alternate stores the
\* alternate function and returns 1, and leaves last_error, which
\* VirtualGPIO_GetLastError returns, at GPIO_ERROR_PINMUX.
C22_PinmuxWarningVisible ==
    [][\A port \in PortIds, pin \in PinIds, alt_func \in AltFuncInputs :
         (/\ InitPorts[port].pins[pin].mode # GPIO_MODE_ALTERNATE
          /\ VirtualGPIO_SetAltFunction(port, pin, alt_func))
         => /\ gpio_ret' = 1
            /\ gpio_ports'[port].pins[pin].alt_function = alt_func
            /\ gpio_last_error' = GPIO_ERROR_PINMUX]_vars

\* C23: with fault injection off, WritePin on a valid pin returns 1 and
\* stores 1 for a non-zero and 0 for a zero argument as the pin's value,
\* whatever the pin's mode and whether or not the clock of its port is on;
\* no other field of the pin, and nothing else in the table, changes.
C23_WritePinStores ==
    [][\A port \in PortIds, pin \in PinIds, value \in ValueInputs :
         (~gpio_error_injection_enabled /\ VirtualGPIO_WritePin(port, pin, value))
         => /\ gpio_ret' = 1
            /\ gpio_ports'[port].pins[pin].value \in {0, 1}
            /\ gpio_ports'[port].pins[pin].value = 0 <=> value = 0
            /\ gpio_ports'
                 = [InitPorts EXCEPT ![port].pins[pin].value
                                       = gpio_ports'[port].pins[pin].value]]_vars

\* A 1 has been stored in pin 1 of port 0, which is in Input mode with pull
\* Down.
C23_Witness ==
    /\ gpio_ret = 1 /\ gpio_read = -1
    /\ gpio_last_error = GPIO_ERROR_NONE
    /\ gpio_ports[0].pins[1].mode = GPIO_MODE_INPUT
    /\ gpio_ports[0].pins[1].pupd = GPIO_PUPD_DOWN
    /\ gpio_ports[0].pins[1].value = 1

\* A 1 has been stored in an Input pin of a port whose clock is off.
C23_UnclockedReached ==
    /\ gpio_ret = 1 /\ gpio_read = -1
    /\ gpio_ports[0].clock_enabled = 0
    /\ gpio_ports[0].pins[1].value = 1

----------------------------------------------------------------------------
(* Claims about interrupt configuration *)

\* C24: after a successful ConfigureInterrupt the pin's mode is one of
\* InterruptRising, InterruptFalling and InterruptBoth, the one the argument
\* names, and its handler is the one given; output type, speed, pull,
\* alternate function and value are as before.
C24_InterruptModeStored ==
    [][\A port \in PortIds, pin \in PinIds, mode \in IrqModeInputs,
          handler \in GpioHandlerInputs :
         (VirtualGPIO_ConfigureInterrupt(port, pin, mode, handler) /\ gpio_ret' = 1)
         => LET p == InitPorts[port].pins[pin]
                q == gpio_ports'[port].pins[pin]
            IN /\ q.mode \in {GPIO_MODE_IT_RISING, GPIO_MODE_IT_FALLING,
                              GPIO_MODE_IT_BOTH}
               /\ q.mode = mode
               /\ q.irq_handler = handler
               /\ q.output_type = p.output_type /\ q.speed = p.speed
               /\ q.pupd = p.pupd /\ q.alt_function = p.alt_function
               /\ q.value = p.value]_vars

----------------------------------------------------------------------------
(* Claims about the clock of a port *)

\* C25: with fault injection off, EnableClock of a valid port returns 1 and
\* leaves the port's clock on; and on every step a clock that is on stays on.
C25_ClockOnlyEnabled ==
    [][/\ \A port \in PortIds :
            (~gpio_error_injection_enabled /\ VirtualGPIO_EnableClock(port))
            => /\ gpio_ret' = 1
               /\ gpio_ports'[port].clock_enabled = 1
       /\ \A port \in PortIds :
            (gpio_initialized /\ gpio_ports[port].clock_enabled = 1)
            => gpio_ports'[port].clock_enabled = 1
       /\ \A port \in clocked : gpio_ports'[port].clock_enabled = 1]_vars

\* The clock of port 0 has been enabled, and its pin 1 has since been
\* configured as an output, written and had an interrupt simulated on it.
C25_Witness ==
    /\ clocked = {0}
    /\ gpio_ports[0].clock_enabled = 1
    /\ gpio_ports[0].pins[1].mode = GPIO_MODE_OUTPUT
    /\ gpio_ports[0].pins[1].value = 1
    /\ gpio_edge = 1

----------------------------------------------------------------------------
(* Claims about the pending flag *)

\* C26: a successful SetPending leaves the pending flag of its line set, a
\* successful ClearPending and a dispatch by ProcessInterrupts leave it
\* clear, and no other step changes it, so that the flag is set exactly when
\* a successful SetPending is more recent than the last ClearPending and the
\* last dispatch of the line.  IsPending returns the flag and changes no
\* line.  ProcessInterrupts does not dispatch a line whose flag is clear.
C26_PendingFollowsCalls ==
    [][\A i \in IrqIds :
         LET was == InitLines[i].pending
             now == irq_lines'[i].pending
             set == VirtualNVIC_SetPending(i) /\ nvic_ret' = 1
             cleared == VirtualNVIC_ClearPending(i) /\ nvic_ret' = 1
             dispatched == VirtualNVIC_ProcessInterrupts /\ Selected = i
         IN /\ set => now
            /\ cleared => ~now
            /\ dispatched => was /\ ~now
            /\ now # was => set \/ cleared \/ dispatched
            /\ VirtualNVIC_IsPending(i)
                 => /\ nvic_ret' = IF was THEN 1 ELSE 0
                    /\ irq_lines' = InitLines]_vars

\* Line 0 is enabled with a handler, was set pending and then cleared, and a
\* ProcessInterrupts made since has dispatched line 1 and not line 0: the
\* handler of line 1 is running and line 0 is neither pending nor active.
C26_Witness ==
    /\ Len(stack) = 1 /\ Top.kind = "isr" /\ Top.irq = 1
    /\ Top.left = MaxHandlerCalls
    /\ irq_lines[0].enabled /\ irq_lines[0].handler = BusyHandler
    /\ irq_lines[0].priority = 1
    /\ ~irq_lines[0].pending /\ ~irq_lines[0].active
    /\ irq_lines[1].priority = MAX_PRIORITY

\* IsPending has returned 1 for line 0, which is pending and disabled.
C26_IsPendingReached ==
    /\ nvic_ret = 1 /\ stack = <<>>
    /\ irq_lines[0].pending /\ ~irq_lines[0].enabled
    /\ irq_lines[0].priority = 1

----------------------------------------------------------------------------
(* Claims about the adapter's HAL_GPIO_Init *)

\* The mode of sim_gpio.c a mode of the adapter stands for.
ModeMeant(Mode) ==
    IF Mode = HAL_GPIO_MODE_IT_RISING THEN GPIO_MODE_IT_RISING
    ELSE IF Mode = HAL_GPIO_MODE_IT_FALLING THEN GPIO_MODE_IT_FALLING
    ELSE IF Mode = HAL_GPIO_MODE_IT_RISING_FALLING THEN GPIO_MODE_IT_BOTH
    ELSE IF Mode \in {HAL_GPIO_MODE_OUTPUT_PP, HAL_GPIO_MODE_OUTPUT_OD}
    THEN GPIO_MODE_OUTPUT
    ELSE IF Mode \in {HAL_GPIO_MODE_AF_PP, HAL_GPIO_MODE_AF_OD}
    THEN GPIO_MODE_ALTERNATE
    ELSE IF Mode = HAL_GPIO_MODE_ANALOG THEN GPIO_MODE_ANALOG
    ELSE GPIO_MODE_INPUT

\* C27: a HAL_GPIO_Init that returns HAL_OK leaves the pin in the mode its
\* Mode field stands for: InterruptRising for GPIO_MODE_IT_RISING,
\* InterruptFalling for GPIO_MODE_IT_FALLING, InterruptBoth for
\* GPIO_MODE_IT_RISING_FALLING, and the mode ConfigurePin is given for the
\* others, with the alternate function stored for the alternate modes.
C27_AdapterModeMapping ==
    [][\A port \in PortIds, Pin \in PinIds, Mode \in HalModeInputs,
          Pull \in HalPullInputs, Speed \in HalSpeedInputs,
          Alternate \in HalAlternateInputs :
         (/\ HAL_GPIO_Init(port, Pin, Mode, Pull, Speed, Alternate)
          /\ hal_status' = HAL_OK)
         => /\ gpio_ports'[port].pins[Pin].mode = ModeMeant(Mode)
            /\ ModeMeant(Mode) = GPIO_MODE_ALTERNATE
                 => gpio_ports'[port].pins[Pin].alt_function = Alternate]_vars

\* C28: a HAL_GPIO_Init that returns HAL_ERROR leaves the clock flag of the
\* port and every field of the pin as they were before the call.
C28_FailedInitChangesNothing ==
    [][\A port \in HalPortInputs, Pin \in HalPinInputs, Mode \in HalModeInputs,
          Pull \in HalPullInputs, Speed \in HalSpeedInputs,
          Alternate \in HalAlternateInputs :
         (/\ HAL_GPIO_Init(port, Pin, Mode, Pull, Speed, Alternate)
          /\ hal_status' = HAL_ERROR)
         => gpio_ports' = InitPorts]_vars

----------------------------------------------------------------------------
(* Claims about the error indicator *)

\* The calls of the pin library and of the interrupt controller that return
\* a result and set last_error.
ResultGpioCall ==
    \/ \E port \in GpioClockInputs : VirtualGPIO_EnableClock(port)
    \/ GpioCall(GpioPortInputs, GpioPinInputs, ConfigInputs, IrqModeInputs,
                AltFuncInputs)
    \/ \E port \in GpioPortInputs, pin \in GpioPinInputs :
         VirtualGPIO_TogglePin(port, pin)

ResultNvicCall ==
    \/ \E i \in IrqInputs : VirtualNVIC_EnableIRQ(i)
    \/ \E i \in IrqInputs : VirtualNVIC_DisableIRQ(i)
    \/ \E i \in IrqInputs, p \in PriorityInputs : VirtualNVIC_SetPriority(i, p)
    \/ \E i \in IrqInputs, h \in {NULL, BusyHandler} : VirtualNVIC_SetHandler(i, h)
    \/ \E i \in IrqInputs : VirtualNVIC_SetPending(i)
    \/ \E i \in IrqInputs : VirtualNVIC_ClearPending(i)

\* C29: after a call that returns 1 the last_error of its library is 0
\* (NONE), and after a call that returns 0 it is not 0: for EnableClock,
\* ConfigurePin, SetAltFunction, WritePin, ReadPin, TogglePin and
\* ConfigureInterrupt, and for EnableIRQ, DisableIRQ, SetPriority, SetHandler,
\* SetPending and ClearPending.
C29_LastErrorAgrees ==
    [][/\ ResultGpioCall
            => /\ gpio_ret' = 1 => gpio_last_error' = GPIO_ERROR_NONE
               /\ gpio_ret' = 0 => gpio_last_error' # GPIO_ERROR_NONE
       /\ ResultNvicCall
            => /\ nvic_ret' = 1 => nvic_last_error' = NVIC_ERROR_NONE
               /\ nvic_ret' = 0 => nvic_last_error' # NVIC_ERROR_NONE]_vars

----------------------------------------------------------------------------
(* Claims about locality *)

\* A step of the pin library, and a step of the interrupt controller.
LocalGpioStep ==
    \/ \E port \in LocalClockInputs : VirtualGPIO_EnableClock(port)
    \/ \E port \in LocalPortInputs, pin \in LocalPinInputs :
         LocalPinCall(port, pin)
    \/ \E port \in LocalPortInputs, pin \in LocalPinInputs :
         VirtualGPIO_SimulateInterrupt(port, pin, 1)

\* C30: a call on a pin leaves every other pin and every clock flag as they
\* were; EnableClock changes the clock flag of its port only, and no pin;
\* ConfigurePin keeps value, alternate function and handler of its pin;
\* SimulateInterrupt changes no field of any pin or port; no call of the
\* pin library changes a line of the interrupt controller, and no call of
\* the interrupt controller changes a pin or a port.
C30_OperationsAreLocal ==
    [][/\ \A port \in PortIds, pin \in PinIds :
            LocalPinCall(port, pin)
            => gpio_ports' = [InitPorts EXCEPT ![port].pins[pin]
                                                 = gpio_ports'[port].pins[pin]]
       /\ \A port \in PortIds :
            VirtualGPIO_EnableClock(port)
            => gpio_ports' = [InitPorts EXCEPT ![port].clock_enabled
                                                 = gpio_ports'[port].clock_enabled]
       /\ \A port \in PortIds, pin \in PinIds :
            VirtualGPIO_ConfigurePin(port, pin, GPIO_MODE_OUTPUT, GPIO_OTYPE_PP,
                                     GPIO_SPEED_HIGH, GPIO_PUPD_NONE)
            => LET p == InitPorts[port].pins[pin]
                   q == gpio_ports'[port].pins[pin]
               IN /\ q.value = p.value
                  /\ q.alt_function = p.alt_function
                  /\ q.irq_handler = p.irq_handler
                  /\ q.irq_enabled = p.irq_enabled
       /\ \A port \in PortIds, pin \in PinIds :
            VirtualGPIO_SimulateInterrupt(port, pin, 1)
            => gpio_ports' = InitPorts
       /\ LocalGpioStep => irq_lines' = irq_lines
       /\ LocalNvicCall => gpio_ports' = gpio_ports]_vars

\* Pin 0 of port 0 is an output that drives 1 and pin 1 is configured for
\* rising edges with a handler and holds 0, the clocks of both ports are on
\* and line 0 is enabled and pending; the last call of the pin library
\* returned 1.
C30_Witness ==
    /\ clocked = {0, 1}
    /\ gpio_ret = 1 /\ gpio_read = -1
    /\ gpio_ports[0].pins[0].mode = GPIO_MODE_OUTPUT
    /\ gpio_ports[0].pins[0].value = 1
    /\ gpio_ports[0].pins[0].alt_function = 7
    /\ gpio_ports[0].pins[1].mode = GPIO_MODE_IT_RISING
    /\ gpio_ports[0].pins[1].irq_handler = example_irq_handler
    /\ gpio_ports[0].pins[1].value = 0
    /\ irq_lines[0].enabled /\ irq_lines[0].pending

=============================================================================
